---- MODULE Spec2Model ----
(***************************************************************************)
(* A model of the device test runner of ndk/run_tests.py: the TestRun      *)
(* result derivation, the ShardingWorkQueue with its per-device worker     *)
(* pools, the driver of run_tests (find the devices, match the build       *)
(* configurations, clean, push, submit, drain, flaky retry, drain,         *)
(* summarize) and the flaky-failure filter.                                *)
(*                                                                         *)
(* Strings of the program whose contents are searched (test names, shell   *)
(* output, failure messages) are sequences of tokens; Python's substring   *)
(* test `needle in text` is contiguous-subsequence containment.            *)
(***************************************************************************)
EXTENDS Integers, Sequences, FiniteSets, TLC

VARIABLES
    pc,             \* position of the driver thread in run_tests
    test_runs,      \* the TestRuns pair_test_runs produced for this run
    todo,           \* TestRuns the submit loop has not yet added
    task_queues,    \* ShardingWorkQueue.task_queues: group -> FIFO of TestRuns
    result_queue,   \* ShardingWorkQueue.result_queue: FIFO of Results / TaskErrors
    num_tasks,      \* ShardingWorkQueue.num_tasks
    running,        \* device -> TestRuns whose remote command is in flight there
    crashed,        \* device -> number of its workers that died raising
    report,         \* ndk.test.report.Report: sequence of [suite, result]
    rerun_tests,    \* restart_flaky_tests: extracted flaky reports not yet requeued
    success,        \* Results.success: None, TRUE or FALSE
    cooldowns,      \* number of time.sleep(cooldown) calls taken
    cmds,           \* TestRun -> remote commands issued for it (history)
    broken_checks,  \* TestRun -> calls of check_broken made for it (history)
    executed_on,    \* TestRun -> devices whose worker ran run_test on it (history)
    get_count,      \* wait phase -> Results get_result returned in it (history)
    results_of,     \* TestRun -> the Results get_result returned for it (history)
    statuses,       \* TestRun -> exit statuses its commands ended with (history)
    arg,            \* input of the function under study (function specifications)
    ret,            \* its result
    args,           \* the command line: require_all_devices, clean_device
    test_groups,    \* enumerate_tests' result: build configuration -> test cases
    adb_devices,    \* the device groups attached to the host
    fleet,          \* find_devices' result: the groups found, the configs missing
    groups_for_config, \* match_configs_to_device_groups' result
    workqueue,      \* the ndk.workqueue.WorkQueue of the clean and push phases
    plain_todo,     \* tasks the running clean / push loop has not yet added
    added,          \* the tasks added to workqueue, in order (history)
    warnings,       \* the warnings logged (history)
    hung,           \* the TestRun whose remote command never returns, or None
    add_count,      \* calls of ShardingWorkQueue.add_task (history)
    exit_status,    \* how main ended: <<>> while running, else <<outcome>>
    calls,          \* the work queues' __init__ / terminate / join calls (history)
    outcome_of,     \* TestRun -> the outcome of its command, if tests are deterministic
    results         \* Results.failure_message and the labels of Results.times

vars == <<pc, test_runs, todo, task_queues, result_queue, num_tasks, running,
          crashed, report, rerun_tests, success, cooldowns, cmds,
          broken_checks, executed_on, get_count, results_of, statuses,
          arg, ret, args, test_groups, adb_devices, fleet, groups_for_config,
          workqueue, plain_todo, added, warnings, hung, add_count,
          exit_status, calls, outcome_of, results>>

queue_vars == <<task_queues, result_queue, num_tasks, running, crashed>>
hist_vars == <<cmds, broken_checks, executed_on, get_count, results_of, statuses>>
fn_vars == <<arg, ret>>
main_vars == <<exit_status, outcome_of, results>>
phase_vars == <<args, test_groups, adb_devices, fleet, groups_for_config,
                workqueue, plain_todo, added, warnings>>

None == "None"

(***************************************************************************)
(* Bounds of the model.                                                    *)
(***************************************************************************)
MaxRuns == 2
MaxCases == 2
MaxPaired == 2
NumWorkers == 2

(***************************************************************************)
(* Program constants.                                                      *)
(***************************************************************************)
\* one more worker process per device
MoreProcsPerDevice == 4 + 1

\* run_tests: ShardingWorkQueue(fleet.get_unique_device_groups(), 4)
ProcsPerDevice == 4

\* flake_filter: 'Could not find exit status in shell output.'
FlakeMarker == <<"Could not find exit status in shell output.">>
\* flake_filter: 'libc++.libcxx/thread' and 'libc++.std/thread'
LibcxxThread == <<"libc++.", "libcxx/", "thread">>
StdThread == <<"libc++.", "std/", "thread">>

(***************************************************************************)
(* Strings.                                                                *)
(***************************************************************************)
\* Python `needle in text`
Contains(needle, text) ==
    \E i \in 0..(Len(text) - Len(needle)) :
        \A j \in 1..Len(needle) : text[i + j] = needle[j]

(***************************************************************************)
(* The fleet: the device groups fleet.get_unique_device_groups() returns,  *)
(* as in the matching scenario (two android-24 devices, one android-30).   *)
(***************************************************************************)
Devices == {"d1", "d2", "d3"}
DeviceGroups == {"g1", "g2"}

\* DeviceGroup.devices
GroupDevices(g) == IF g = "g1" THEN <<"d1", "d2">> ELSE <<"d3">>

DevicesOf(g) == {GroupDevices(g)[i] : i \in 1..Len(GroupDevices(g))}

GroupOf(d) == CHOOSE g \in DeviceGroups : d \in DevicesOf(g)

\* Device.version
Version(d) == IF d = "d3" THEN 30 ELSE 24

\* str(device.version) as a test config reports it
PlatformName(d) == IF d = "d3" THEN "android-30" ELSE "android-24"

\* Device.abis
Abis(d) == {"arm64-v8a"}

\* BuildConfiguration(abi, api): the build configurations of the dist directory
BuildConfigurations == [
    arm64_24 |-> [abi |-> "arm64-v8a", api |-> 24],
    arm64_28 |-> [abi |-> "arm64-v8a", api |-> 28],
    x86_24 |-> [abi |-> "x86", api |-> 24]
]

Configs == DOMAIN BuildConfigurations

\* the order in which a dict of configurations is iterated
ConfigOrder == <<"arm64_24", "arm64_28", "x86_24">>

\* the order of fleet.get_unique_device_groups()
GroupOrder == <<"g1", "g2">>

\* can_run_build_config looking at the ABI alone
can_run_any_api(device, config) ==
    BuildConfigurations[config].abi \in Abis(device)

\* Device.can_run_build_config
can_run_build_config(device, config) ==
    /\ BuildConfigurations[config].abi \in Abis(device)
    /\ Version(device) >= BuildConfigurations[config].api

\* test_config['devices']: the device configurations asked for, under the
\* group the devices of each form when attached
RequestedDevices ==
    [g1 |-> "android-24 arm64-v8a", g2 |-> "android-30 arm64-v8a"]

\* ndk.test.devices.find_devices, given the groups attached to the host
find_devices(attached) ==
    [groups |-> attached,
     missing |-> {RequestedDevices[g] : g \in DeviceGroups \ attached}]

\* Fleet.get_unique_device_groups
get_unique_device_groups(f) == SelectSeq(GroupOrder, LAMBDA g : g \in f.groups)

\* Fleet.get_missing
get_missing(f) == f.missing

(***************************************************************************)
(* Test cases found in the dist directory, and the TestRuns that bind them *)
(* to a device group.  A test case's test_config.py declares it            *)
(* unsupported, or broken, below a platform level (0: never); its config   *)
(* is the build configuration it was built for.                            *)
(***************************************************************************)
TestCases == [
    plain |-> [name |-> <<"suite", ".", "exe">>, build_system |-> "cmake",
               unsupported_below |-> 0, broken_below |-> 0,
               config |-> "arm64_24"],
    newapi |-> [name |-> <<"vulkan", ".", "exe">>, build_system |-> "ndk-build",
                unsupported_below |-> 28, broken_below |-> 31,
                config |-> "arm64_24"],
    xfail |-> [name |-> <<"suite", ".", "broken">>, build_system |-> "cmake",
               unsupported_below |-> 0, broken_below |-> 28,
               config |-> "arm64_24"],
    thread |-> [name |-> <<"libc++.", "std/", "thread", "/a.pass">>,
                build_system |-> "libc++",
                unsupported_below |-> 0, broken_below |-> 0,
                config |-> "arm64_28"],
    xthread |-> [name |-> <<"libc++.", "libcxx/", "thread", "/b.pass">>,
                 build_system |-> "libc++",
                 unsupported_below |-> 0, broken_below |-> 31,
                 config |-> "arm64_28"]
]

\* TestRun(test_case, device_group)
TestRuns == [
    r1 |-> [test_case |-> "plain", device_group |-> "g1"],
    r2 |-> [test_case |-> "newapi", device_group |-> "g1"],
    r3 |-> [test_case |-> "xfail", device_group |-> "g1"],
    r4 |-> [test_case |-> "thread", device_group |-> "g2"],
    r5 |-> [test_case |-> "xthread", device_group |-> "g2"],
    r6 |-> [test_case |-> "plain", device_group |-> "g2"],
    r7 |-> [test_case |-> "xfail", device_group |-> "g2"],
    r8 |-> [test_case |-> "newapi", device_group |-> "g2"],
    r9 |-> [test_case |-> "thread", device_group |-> "g1"],
    r10 |-> [test_case |-> "xthread", device_group |-> "g1"]
]

AllRuns == DOMAIN TestRuns

\* the TestRuns one run of the driver draws its test_runs from
DriverRuns == {"r1", "r2", "r3", "r4", "r5", "r6"}

\* every test case paired with the single-device group
SingleDeviceRuns == {t \in AllRuns : TestRuns[t].device_group = "g2"}

\* TestCase.config
config_of(test_case) == TestCases[test_case].config

\* TestRun.name
name(test) == TestCases[TestRuns[test].test_case].name

\* TestRun.build_system
build_system(test) == TestCases[TestRuns[test].test_case].build_system

device_group(test) == TestRuns[test].device_group

\* TestCase.check_unsupported(device): the platform the config rejects, or None
check_unsupported(test, device) ==
    IF Version(device) < TestCases[TestRuns[test].test_case].unsupported_below
    THEN PlatformName(device)
    ELSE None

\* TestCase.check_broken(device): (config, bug), (None, None) when not broken
check_broken(test, device) ==
    IF Version(device) < TestCases[TestRuns[test].test_case].broken_below
    THEN <<PlatformName(device), "http://b/1">>
    ELSE <<None, None>>

(***************************************************************************)
(* ndk.test.result: the Result variants and their passed()/failed().       *)
(***************************************************************************)
Success(test) ==
    [kind |-> "Success", test |-> test, message |-> <<>>,
     config |-> None, bug |-> None]

Failure(test, message) ==
    [kind |-> "Failure", test |-> test, message |-> message,
     config |-> None, bug |-> None]

Skipped(test, reason) ==
    [kind |-> "Skipped", test |-> test, message |-> reason,
     config |-> None, bug |-> None]

ExpectedFailure(test, config, bug) ==
    [kind |-> "ExpectedFailure", test |-> test, message |-> <<>>,
     config |-> config, bug |-> bug]

UnexpectedSuccess(test, config, bug) ==
    [kind |-> "UnexpectedSuccess", test |-> test, message |-> <<>>,
     config |-> config, bug |-> bug]

passed(result) == result.kind \in {"Success", "ExpectedFailure"}

failed(result) == result.kind \in {"Failure", "UnexpectedSuccess"}

\* raise ValueError(...) escaping a task
ValueError(test) ==
    [kind |-> "ValueError", test |-> test, message |-> <<>>,
     config |-> None, bug |-> None]

(***************************************************************************)
(* What a device answers to one shell command.                             *)
(***************************************************************************)
\* device.shell_nocheck(cmd) returning (status, stdout, stderr)
Returns(status, out) == [raises |-> None, status |-> status, out |-> out]

\* device.shell_nocheck(cmd) raising
Raises(exc, msg) == [raises |-> exc, status |-> 0, out |-> msg]

\* shell_nocheck_wrap_errors: a RuntimeError becomes a failed command
shell_nocheck_wrap_errors(outcome) ==
    IF outcome.raises = "RuntimeError"
    THEN <<1, <<"Traceback">> \o outcome.out, <<>>>>
    ELSE <<outcome.status, outcome.out, <<>>>>

(***************************************************************************)
(* TestRun: the Result of one run.                                         *)
(***************************************************************************)
\* fixup_xfail with the failed/passed branches exchanged
fixup_xfail_swapped(test, result, device) ==
    LET config == check_broken(test, device)[1]
        bug == check_broken(test, device)[2]
    IN  IF config # None
        THEN IF passed(result) THEN ExpectedFailure(test, config, bug)
             ELSE IF failed(result) THEN UnexpectedSuccess(test, config, bug)
             ELSE ValueError(test)
        ELSE result

\* TestRun.fixup_xfail
fixup_xfail(test, result, device) ==
    LET config == check_broken(test, device)[1]
        bug == check_broken(test, device)[2]
    IN  IF config # None
        THEN IF failed(result) THEN ExpectedFailure(test, config, bug)
             ELSE IF passed(result) THEN UnexpectedSuccess(test, config, bug)
             ELSE ValueError(test)
        ELSE result

\* make_result raising on a failed command instead of returning a Failure
make_result_raises(test, adb_result_tuple, device) ==
    LET status == adb_result_tuple[1]
    IN  IF status = 0
        THEN fixup_xfail(test, Success(test), device)
        ELSE [kind |-> "TaskError", test |-> test, message |-> <<"Traceback">>,
              config |-> None, bug |-> None]

\* TestRun.make_result
make_result(test, adb_result_tuple, device) ==
    LET status == adb_result_tuple[1]
        out == adb_result_tuple[2]
        result == IF status = 0
                  THEN Success(test)
                  ELSE Failure(test, <<device, "\n">> \o out)
    IN  fixup_xfail(test, result, device)

\* the Skipped result of TestRun.run
skipped_result(test, config) ==
    Skipped(test, <<"test unsupported for ", config>>)

\* TestRun.run without the early return
run_never_skips(test, device) == FALSE

\* TestRun.run: `config is not None`, the early return before any command
run_skips(test, device) == check_unsupported(test, device) # None

\* TestRun.run, given what test_case.run(device) returns when it is called
run(test, device, adb_result_tuple) ==
    IF run_skips(test, device)
    THEN skipped_result(test, check_unsupported(test, device))
    ELSE make_result(test, adb_result_tuple, device)

(***************************************************************************)
(* Flaky failures.                                                         *)
(***************************************************************************)
\* flake_filter without the UnexpectedSuccess check
flake_filter_any_kind(result) ==
    IF Contains(FlakeMarker, result.message)
    THEN TRUE
    ELSE Contains(LibcxxThread, name(result.test))
         \/ Contains(StdThread, name(result.test))

\* flake_filter
flake_filter(result) ==
    IF result.kind = "UnexpectedSuccess"
    THEN FALSE
    ELSE IF Contains(FlakeMarker, result.message)
    THEN TRUE
    ELSE Contains(LibcxxThread, name(result.test))
         \/ Contains(StdThread, name(result.test))

(***************************************************************************)
(* ndk.test.report.Report: the results in the order they were added, each  *)
(* under its build system.                                                 *)
(***************************************************************************)
\* Report.add_result
add_result(rep, suite, result) ==
    Append(rep, [suite |-> suite, result |-> result])

\* Report.all_failed
all_failed(rep) == SelectSeq(rep, LAMBDA r : failed(r.result))

\* Report.remove_all_failing_flaky: the reports extracted
flaky_reports(rep) == SelectSeq(all_failed(rep), LAMBDA r : flake_filter(r.result))

\* Report.remove_all_failing_flaky: the reports left
remaining_reports(rep) ==
    LET flaky == flaky_reports(rep)
    IN  SelectSeq(rep, LAMBDA r : \A i \in 1..Len(flaky) : flaky[i] # r)

\* Report.successful
successful(rep) == Len(all_failed(rep)) = 0

(***************************************************************************)
(* ndk.workqueue: a worker that raises delivers a TaskError.               *)
(***************************************************************************)
TaskError(test) ==
    [kind |-> "TaskError", test |-> test, message |-> <<"Traceback">>,
     config |-> None, bug |-> None]

\* finished() that is already true while one task is outstanding
finished_early == num_tasks <= 1

\* ShardingWorkQueue.finished
finished == num_tasks = 0

\* a device with a hung command taking no further task
idle_workers_exclusive(d) ==
    IF hung \in running[d]
    THEN 0
    ELSE ProcsPerDevice - Cardinality(running[d]) - crashed[d]

\* the workers of a device that can take a task
idle_workers(d) == ProcsPerDevice - Cardinality(running[d]) - crashed[d]

\* the driver has not shut the queue down (terminate, join)
workers_alive == pc \in {"submit", "wait1", "restart", "requeue", "wait2"}

\* what a device can answer to a test's command
DeviceOutcomes ==
    {Returns(0, <<"ok">>), Returns(1, <<"FAIL">>),
     Raises("RuntimeError", FlakeMarker)}

\* a command that may end differently each time it is issued
outcomes_vary(test) == DeviceOutcomes

\* what the command of `test` can end with: anything, unless the run is one
\* whose tests are deterministic
outcomes(test) ==
    IF test \in DOMAIN outcome_of THEN {outcome_of[test]} ELSE DeviceOutcomes

(***************************************************************************)
(* Matching build configurations to device groups and pairing test cases   *)
(* with the groups of their configuration.  groups_for_config maps a       *)
(* configuration to the list of its groups; test_groups maps it to the     *)
(* test cases found for it.                                                *)
(***************************************************************************)
Range(seq) == {seq[i] : i \in 1..Len(seq)}

RECURSIVE Flatten(_)
Flatten(seqs) ==
    IF Len(seqs) = 0 THEN <<>> ELSE Head(seqs) \o Flatten(Tail(seqs))

\* verify_have_all_requested_devices: its return value
verify_have_all_requested_devices(f) == Cardinality(get_missing(f)) = 0

\* match_configs_to_device_groups listing every group under every config
match_every_group(f, configs) ==
    [config \in configs |-> get_unique_device_groups(f)]

\* match_configs_to_device_groups
match_configs_to_device_groups(f, configs) ==
    [config \in configs |->
        SelectSeq(get_unique_device_groups(f),
                  LAMBDA group :
                      can_run_build_config(GroupDevices(group)[1], config))]

\* find_configs_with_no_device
find_configs_with_no_device(gfc) == {c \in DOMAIN gfc : Len(gfc[c]) = 0}

\* pair_test_runs pairing only with the first group of a config
pair_first_group(tg, gfc) ==
    {t \in AllRuns : \E config \in DOMAIN tg :
        /\ tg[config] # {}
        /\ TestRuns[t].test_case \in tg[config]
        /\ Len(gfc[config]) > 0
        /\ device_group(t) = gfc[config][1]}

\* pair_test_runs
pair_test_runs(tg, gfc) ==
    {t \in AllRuns : \E config \in DOMAIN tg :
        /\ tg[config] # {}
        /\ TestRuns[t].test_case \in tg[config]
        /\ device_group(t) \in Range(gfc[config])}

(***************************************************************************)
(* The tasks of the clean and push phases, run on an ordinary              *)
(* ndk.workqueue.WorkQueue whose workers are bound to no device.           *)
(***************************************************************************)
\* ndk.workqueue.Task(func, args): the device, and for a push the config
Task(func, config, device) ==
    [func |-> func, config |-> config, device |-> device]

\* clear_test_directories: the tasks its loop adds, in order
clear_tasks(f) ==
    LET groups == get_unique_device_groups(f)
        of_group(g) == [j \in 1..Len(GroupDevices(g)) |->
                           Task("clear_test_directory", None, GroupDevices(g)[j])]
    IN  Flatten([i \in 1..Len(groups) |-> of_group(groups[i])])

\* push_tests_to_devices adding one task per device, whatever the configs
push_tasks_per_device(gfc) ==
    LET configs == SelectSeq(ConfigOrder, LAMBDA c : c \in DOMAIN gfc)
        matched == SelectSeq(GroupOrder,
                       LAMBDA g : \E c \in DOMAIN gfc : g \in Range(gfc[c]))
        first(g) == configs[CHOOSE i \in 1..Len(configs) :
                        /\ g \in Range(gfc[configs[i]])
                        /\ \A k \in 1..(i - 1) : g \notin Range(gfc[configs[k]])]
        of_group(g) == [j \in 1..Len(GroupDevices(g)) |->
                           Task("push_tests_to_device", first(g),
                                GroupDevices(g)[j])]
    IN  Flatten([i \in 1..Len(matched) |-> of_group(matched[i])])

\* push_tests_to_devices: the tasks its loops add, in order
push_tasks(gfc) ==
    LET configs == SelectSeq(ConfigOrder, LAMBDA c : c \in DOMAIN gfc)
        of_group(c, g) == [j \in 1..Len(GroupDevices(g)) |->
                              Task("push_tests_to_device", c, GroupDevices(g)[j])]
        of_config(c) == Flatten([i \in 1..Len(gfc[c]) |-> of_group(c, gfc[c][i])])
    IN  Flatten([i \in 1..Len(configs) |-> of_config(configs[i])])

\* ndk.workqueue.WorkQueue(): no task, every worker idle
NewWorkQueue ==
    [task_queue |-> <<>>, result_queue |-> <<>>, num_tasks |-> 0,
     running |-> {}, crashed |-> 0, terminated |-> FALSE]

\* WorkQueue.terminate and join
Terminated(wq) == [wq EXCEPT !.terminated = TRUE]

\* what a task of the clean and push phases puts on the result queue
Done(task) == [task |-> task, error |-> FALSE]

PlainTaskError(task) == [task |-> task, error |-> TRUE]

(***************************************************************************)
(* Shutdown.  Every work queue is named: the queue of the clean and push   *)
(* phases is "workqueue", a member queue of the ShardingWorkQueue bears    *)
(* the name of the device its workers serve.  `calls` records, in order,   *)
(* every construction, terminate() and join() of a queue.                  *)
(***************************************************************************)
\* ShardingWorkQueue.__init__: one WorkQueue per device of every group
work_queues(f) ==
    LET groups == get_unique_device_groups(f)
    IN  Flatten([i \in 1..Len(groups) |-> GroupDevices(groups[i])])

\* the ndk.workqueue.WorkQueue constructor, called for each queue of `queues`
construct(queues) == [i \in 1..Len(queues) |-> <<"__init__", queues[i]>>]

\* terminate() reaching only the first member queue
terminate_first(queues) ==
    [i \in 1..(IF Len(queues) > 0 THEN 1 ELSE 0) |-> <<"terminate", queues[i]>>]

\* ShardingWorkQueue.terminate: `for work_queue in self.work_queues`
terminate(queues) == [i \in 1..Len(queues) |-> <<"terminate", queues[i]>>]

\* ShardingWorkQueue.join: `for work_queue in self.work_queues`
join(queues) == [i \in 1..Len(queues) |-> <<"join", queues[i]>>]

\* a finally clause of run_tests: terminate(), then join()
finally(queues) == terminate(queues) \o join(queues)

(***************************************************************************)
(* The Results object of a run.  Its field success is the variable         *)
(* success; the variable results holds the failure message and the labels  *)
(* of the timing reports.  A method returns the object as the call leaves  *)
(* it, and the exception it raised, if any.                                *)
(***************************************************************************)
\* the Results object in the current state
the_results ==
    [success |-> success, failure_message |-> results.failure_message,
     times |-> results.times]

\* Results.passed that overwrites an outcome already recorded
Results_passed_again(self) ==
    [raises |-> None, self |-> [self EXCEPT !.success = "True"]]

\* Results.passed
Results_passed(self) ==
    IF self.success # None
    THEN [raises |-> "ValueError", self |-> self]
    ELSE [raises |-> None, self |-> [self EXCEPT !.success = "True"]]

\* Results.failed
Results_failed(self, message) ==
    IF self.success # None
    THEN [raises |-> "ValueError", self |-> self]
    ELSE [raises |-> None,
          self |-> [self EXCEPT !.success = "False",
                                !.failure_message = message]]

\* Results.add_timing_report
add_timing_report(self, label) ==
    IF \E i \in 1..Len(self.times) : self.times[i] = label
    THEN [raises |-> "ValueError", self |-> self]
    ELSE [raises |-> None, self |-> [self EXCEPT !.times = Append(@, label)]]

\* results.add_timing_report(label, timer) in run_tests, whose labels differ
with_timing_report(label) ==
    [failure_message |-> results.failure_message,
     times |-> add_timing_report(the_results, label).self.times]

\* run_tests: `results.passed()` or `results.failed(...)`, then
\* `return results`; a ValueError of the call leaves run_tests instead
Returns_with(call) ==
    /\ success' = call.self.success
    /\ results' = [failure_message |-> call.self.failure_message,
                   times |-> call.self.times]
    /\ pc' = IF call.raises = None THEN "returned" ELSE "raised"

(***************************************************************************)
(* The driver: run_tests from the creation of the ShardingWorkQueue.       *)
(***************************************************************************)
\* a freshly made ShardingWorkQueue, an empty Report, no outcome yet
InitState ==
    /\ hung = None
    /\ exit_status = <<>>
    /\ results = [failure_message |-> None, times |-> <<>>]
    /\ add_count = 0
    /\ added = <<>>
    /\ warnings = {}
    /\ task_queues = [g \in DeviceGroups |-> <<>>]
    /\ result_queue = <<>>
    /\ num_tasks = 0
    /\ running = [d \in Devices |-> {}]
    /\ crashed = [d \in Devices |-> 0]
    /\ report = <<>>
    /\ rerun_tests = <<>>
    /\ success = None
    /\ cooldowns = 0
    /\ cmds = [t \in AllRuns |-> 0]
    /\ broken_checks = [t \in AllRuns |-> 0]
    /\ executed_on = [t \in AllRuns |-> {}]
    /\ get_count = [wait1 |-> 0, wait2 |-> 0]
    /\ results_of = [t \in AllRuns |-> <<>>]
    /\ statuses = [t \in AllRuns |-> <<>>]

\* the driver about to submit `runs`, both groups attached, the tests pushed
InitWith(runs) ==
    /\ pc = "submit"
    /\ test_runs = runs
    /\ todo = test_runs
    /\ args = [require_all_devices |-> FALSE, clean_device |-> FALSE]
    /\ test_groups = <<>>
    /\ adb_devices = DeviceGroups
    /\ fleet = find_devices(adb_devices)
    /\ groups_for_config = <<>>
    /\ workqueue = Terminated(NewWorkQueue)
    /\ calls = construct(<<"workqueue">>) \o finally(<<"workqueue">>)
                   \o construct(work_queues(fleet))
    /\ plain_todo = <<>>
    /\ InitState

\* pair_test_runs produced at most MaxRuns TestRuns
Init ==
    /\ \E runs \in {S \in SUBSET DriverRuns : Cardinality(S) <= MaxRuns} :
        InitWith(runs)
    /\ outcome_of = <<>>
    /\ arg = <<>>
    /\ ret = <<>>

\* more TestRuns for one device than the device has workers
InitPool ==
    /\ InitWith(SingleDeviceRuns)
    /\ outcome_of = <<>>
    /\ arg = <<>>
    /\ ret = <<>>

\* add_task putting every task on the first group's queue
add_task_first_group(group, test) ==
    /\ task_queues' = [task_queues EXCEPT !["g1"] = Append(@, test)]
    /\ num_tasks' = num_tasks + 1
    /\ add_count' = add_count + 1

\* ShardingWorkQueue.add_task(group, run_test, test)
add_task(group, test) ==
    /\ task_queues' = [task_queues EXCEPT ![group] = Append(@, test)]
    /\ num_tasks' = num_tasks + 1
    /\ add_count' = add_count + 1

\* run_tests: one iteration of `for test_run in test_runs` over the shuffled list
SubmitTestRun ==
    /\ pc = "submit"
    /\ \E test_run \in todo :
        /\ add_task(device_group(test_run), test_run)
        /\ todo' = todo \ {test_run}
    /\ UNCHANGED <<pc, test_runs, result_queue, running, crashed, report,
                   rerun_tests, success, cooldowns, hist_vars, fn_vars,
                   phase_vars, hung, main_vars, calls>>

\* run_tests: the submit loop ends and wait_for_results is entered
SubmitDone ==
    /\ pc = "submit"
    /\ todo = {}
    /\ pc' = "wait1"
    /\ UNCHANGED <<test_runs, todo, queue_vars, report, rerun_tests, success,
                   cooldowns, hist_vars, fn_vars,
                   phase_vars, hung, main_vars, calls, add_count>>

(***************************************************************************)
(* The progress UI.  TestProgressUi reads the ShardingWorkQueue it was     *)
(* given; get_ui_lines returns the lines and is modelled together with     *)
(* the queue as the call leaves it.  The status of the workers of one      *)
(* device is rendered as the numbers of busy, idle and dead workers.       *)
(***************************************************************************)
\* the ShardingWorkQueue object in the current state
shard_queue ==
    [work_queues |-> work_queues(fleet), task_queues |-> task_queues,
     result_queue |-> result_queue, num_tasks |-> num_tasks,
     running |-> running, crashed |-> crashed]

\* the three consoles of get_test_progress_ui:
\* <<show_worker_status, show_device_groups>>
UiKinds == {<<TRUE, TRUE>>, <<FALSE, FALSE>>, <<FALSE, TRUE>>}

\* worker.status of the workers of one member queue
worker_status(wq, d) ==
    <<d, [busy |-> Cardinality(wq.running[d]),
          idle |-> ProcsPerDevice - Cardinality(wq.running[d]) - wq.crashed[d],
          dead |-> wq.crashed[d]]>>

\* `for group in sorted(self.workqueue.task_queues.keys())`
sorted_groups(wq) ==
    SelectSeq(GroupOrder, LAMBDA g : g \in DOMAIN wq.task_queues)

\* one line of the device-group section; qsize() only reads the queue
group_line(wq, group) ==
    <<Len(wq.task_queues[group]), Len(GroupDevices(group)), "devices android-",
      Version(GroupDevices(group)[1]), Abis(GroupDevices(group)[1])>>

\* get_ui_lines counting a queue by taking its tasks out
get_ui_lines_draining(wq, show_worker_status, show_device_groups) ==
    [lines |-> <<<<wq.num_tasks, " tests remaining">>>>,
     workqueue |-> [wq EXCEPT !.task_queues =
                        [g \in DOMAIN wq.task_queues |-> <<>>]]]

\* TestProgressUi.get_ui_lines: the lines, and the queue after the call
get_ui_lines(wq, show_worker_status, show_device_groups) ==
    LET workers == IF show_worker_status
                   THEN [i \in 1..Len(wq.work_queues) |->
                            worker_status(wq, wq.work_queues[i])]
                   ELSE <<>>
        remaining == <<<<wq.num_tasks, " tests remaining">>>>
        groups == IF show_device_groups
                  THEN [i \in 1..Len(sorted_groups(wq)) |->
                           group_line(wq, sorted_groups(wq)[i])]
                  ELSE <<>>
    IN  [lines |-> workers \o remaining \o groups, workqueue |-> wq]

\* get_result returning a Result without counting it
GetResult_uncounted ==
    /\ pc \in {"wait1", "wait2"}
    /\ ~finished
    /\ result_queue # <<>>
    /\ Head(result_queue).kind # "TaskError"
    /\ result_queue' = Tail(result_queue)
    /\ report' = add_result(report, build_system(Head(result_queue).test),
                            Head(result_queue))
    /\ get_count' = [get_count EXCEPT ![pc] = @ + 1]
    /\ results_of' = [results_of EXCEPT ![Head(result_queue).test] =
                          Append(@, Head(result_queue))]
    /\ UNCHANGED <<pc, test_runs, todo, task_queues, num_tasks, running,
                   crashed, rerun_tests, success, cooldowns, cmds,
                   broken_checks, executed_on, statuses, fn_vars,
                   phase_vars, hung, main_vars, calls, add_count>>

\* wait_for_results: get_result returns a Result, which is added to the
\* report; then ui.draw() renders the queue as get_result left it
GetResult ==
    /\ pc \in {"wait1", "wait2"}
    /\ ~finished
    /\ result_queue # <<>>
    /\ Head(result_queue).kind # "TaskError"
    /\ report' = add_result(report, build_system(Head(result_queue).test),
                            Head(result_queue))
    /\ get_count' = [get_count EXCEPT ![pc] = @ + 1]
    /\ results_of' = [results_of EXCEPT ![Head(result_queue).test] =
                          Append(@, Head(result_queue))]
    /\ \E ui \in UiKinds :
        LET got == [shard_queue EXCEPT !.result_queue = Tail(result_queue),
                                       !.num_tasks = num_tasks - 1]
            drawn == get_ui_lines(got, ui[1], ui[2]).workqueue
        IN  /\ task_queues' = drawn.task_queues
            /\ result_queue' = drawn.result_queue
            /\ num_tasks' = drawn.num_tasks
            /\ running' = drawn.running
            /\ crashed' = drawn.crashed
    /\ UNCHANGED <<pc, test_runs, todo,
                   rerun_tests, success, cooldowns, cmds, broken_checks,
                   executed_on, statuses, fn_vars,
                   phase_vars, hung, main_vars, calls, add_count>>

\* get_result returning the TaskError like a result, which is dropped
GetResult_swallows ==
    /\ pc \in {"wait1", "wait2"}
    /\ ~finished
    /\ result_queue # <<>>
    /\ Head(result_queue).kind = "TaskError"
    /\ result_queue' = Tail(result_queue)
    /\ num_tasks' = num_tasks - 1
    /\ UNCHANGED <<pc, test_runs, todo, task_queues, running, crashed,
                   report, rerun_tests, success, cooldowns, hist_vars, fn_vars,
                   phase_vars, hung, main_vars, calls, add_count>>

\* wait_for_results: get_result raises the TaskError; run_tests' finally
\* clause terminates and joins the queue and the exception leaves run_tests
GetResultRaises ==
    /\ pc \in {"wait1", "wait2"}
    /\ ~finished
    /\ result_queue # <<>>
    /\ Head(result_queue).kind = "TaskError"
    /\ result_queue' = Tail(result_queue)
    /\ pc' = "raised"
    /\ calls' = calls \o finally(work_queues(fleet))
    /\ UNCHANGED <<test_runs, todo, task_queues, num_tasks, running, crashed,
                   report, rerun_tests, success, cooldowns, hist_vars, fn_vars,
                   phase_vars, hung, main_vars, add_count>>

\* the driver going back to restart_flaky_tests after every drain
WaitDone_retry_again ==
    /\ pc \in {"wait1", "wait2"}
    /\ finished
    /\ pc' = "restart"
    /\ UNCHANGED <<test_runs, todo, queue_vars, report, rerun_tests, success,
                   cooldowns, hist_vars, fn_vars,
                   phase_vars, hung, main_vars, calls, add_count>>

\* wait_for_results giving up as soon as the result queue is momentarily empty
WaitDone_when_idle ==
    /\ pc \in {"wait1", "wait2"}
    /\ result_queue = <<>>
    /\ pc' = IF pc = "wait1" THEN "restart" ELSE "summarize"
    /\ UNCHANGED <<test_runs, todo, queue_vars, report, rerun_tests, success,
                   cooldowns, hist_vars, fn_vars,
                   phase_vars, hung, main_vars, calls, add_count>>

\* wait_for_results: the loop ends when the queue is finished
WaitDone ==
    /\ pc \in {"wait1", "wait2"}
    /\ finished
    /\ pc' = IF pc = "wait1" THEN "restart" ELSE "summarize"
    /\ UNCHANGED <<test_runs, todo, queue_vars, report, rerun_tests, success,
                   cooldowns, hist_vars, fn_vars,
                   phase_vars, hung, main_vars, calls, add_count>>

\* restart_flaky_tests reading the flaky failures without removing them
RestartFlaky_keeps ==
    /\ pc = "restart"
    /\ rerun_tests' = flaky_reports(report)
    /\ report' = report
    /\ cooldowns' = IF Len(rerun_tests') > 0 THEN cooldowns + 1 ELSE cooldowns
    /\ pc' = "requeue"
    /\ UNCHANGED <<test_runs, todo, queue_vars, success, hist_vars, fn_vars,
                   phase_vars, hung, main_vars, calls, add_count>>

\* restart_flaky_tests sleeping whether or not anything is rerun
RestartFlaky_always_cools ==
    /\ pc = "restart"
    /\ rerun_tests' = flaky_reports(report)
    /\ report' = remaining_reports(report)
    /\ cooldowns' = cooldowns + 1
    /\ pc' = "requeue"
    /\ UNCHANGED <<test_runs, todo, queue_vars, success, hist_vars, fn_vars,
                   phase_vars, hung, main_vars, calls, add_count>>

\* restart_flaky_tests: the flaky failures leave the report; cooldown if any
RestartFlaky ==
    /\ pc = "restart"
    /\ rerun_tests' = flaky_reports(report)
    /\ report' = remaining_reports(report)
    /\ cooldowns' = IF Len(rerun_tests') > 0 THEN cooldowns + 1 ELSE cooldowns
    /\ pc' = "requeue"
    /\ UNCHANGED <<test_runs, todo, queue_vars, success, hist_vars, fn_vars,
                   phase_vars, hung, main_vars, calls, add_count>>

\* restart_flaky_tests requeueing to the first group of the fleet, not to the
\* group of the TestRun
RequeueFlaky_first_group ==
    /\ pc = "requeue"
    /\ rerun_tests # <<>>
    /\ add_task(GroupOrder[1], Head(rerun_tests).result.test)
    /\ rerun_tests' = Tail(rerun_tests)
    /\ UNCHANGED <<pc, test_runs, todo, result_queue, running, crashed, report,
                   success, cooldowns, hist_vars, fn_vars,
                   phase_vars, hung, main_vars, calls>>

\* restart_flaky_tests: one iteration of `for flaky_report in rerun_tests`
RequeueFlaky ==
    /\ pc = "requeue"
    /\ rerun_tests # <<>>
    /\ add_task(device_group(Head(rerun_tests).result.test),
                Head(rerun_tests).result.test)
    /\ rerun_tests' = Tail(rerun_tests)
    /\ UNCHANGED <<pc, test_runs, todo, result_queue, running, crashed, report,
                   success, cooldowns, hist_vars, fn_vars,
                   phase_vars, hung, main_vars, calls>>

\* restart_flaky_tests returns and the second wait_for_results is entered
RequeueDone ==
    /\ pc = "requeue"
    /\ rerun_tests = <<>>
    /\ pc' = "wait2"
    /\ UNCHANGED <<test_runs, todo, queue_vars, report, rerun_tests, success,
                   cooldowns, hist_vars, fn_vars,
                   phase_vars, hung, main_vars, calls, add_count>>

\* run_tests recording a pass whatever the report holds
Summarize_passes ==
    /\ pc = "summarize"
    /\ success' = "True"
    /\ pc' = "returned"
    /\ calls' = calls \o finally(work_queues(fleet))
    /\ UNCHANGED <<test_runs, todo, queue_vars, report, rerun_tests,
                   cooldowns, hist_vars, fn_vars,
                   phase_vars, hung, main_vars, add_count>>

\* run_tests: the queue is terminated and joined, then
\* `if report.successful: results.passed() else: results.failed()`
Summarize ==
    /\ pc = "summarize"
    /\ LET timed == add_timing_report(the_results, "Run").self
       IN  Returns_with(IF successful(report) THEN Results_passed(timed)
                        ELSE Results_failed(timed, None))
    /\ calls' = calls \o finally(work_queues(fleet))
    /\ UNCHANGED <<test_runs, todo, queue_vars, report, rerun_tests,
                   cooldowns, hist_vars, fn_vars,
                   phase_vars, hung, exit_status, outcome_of, add_count>>

(***************************************************************************)
(* The workers: ProcsPerDevice worker processes per device, all reading    *)
(* the task queue of the device's group, each with worker.data = [device]. *)
(* The workers of one device are interchangeable: the model keeps the set  *)
(* of tasks they are executing.                                            *)
(***************************************************************************)
\* a worker taking the task added last
WorkerTake_newest(d) ==
    /\ workers_alive
    /\ idle_workers(d) > 0
    /\ task_queues[GroupOf(d)] # <<>>
    /\ LET queue == task_queues[GroupOf(d)]
           test == queue[Len(queue)]
       IN  /\ task_queues' = [task_queues EXCEPT ![GroupOf(d)] =
                                  SubSeq(queue, 1, Len(queue) - 1)]
           /\ executed_on' = [executed_on EXCEPT ![test] = @ \cup {d}]
           /\ IF run_skips(test, d)
              THEN /\ result_queue' = Append(result_queue, run(test, d, <<>>))
                   /\ UNCHANGED <<running, cmds>>
              ELSE /\ running' = [running EXCEPT ![d] = @ \cup {test}]
                   /\ cmds' = [cmds EXCEPT ![test] = @ + 1]
                   /\ UNCHANGED result_queue
    /\ UNCHANGED <<pc, test_runs, todo, num_tasks, crashed, report,
                   rerun_tests, success, cooldowns, broken_checks, get_count,
                   results_of, statuses, fn_vars,
                   phase_vars, hung, main_vars, calls, add_count>>

\* a worker of device d takes a task and calls run_test: TestRun.run either
\* returns Skipped at once or has the test case issue its shell command
\* (BasicTestCase.run asks check_unsupported again, with the same answer)
WorkerTake(d) ==
    /\ workers_alive
    /\ idle_workers(d) > 0
    /\ task_queues[GroupOf(d)] # <<>>
    /\ LET test == Head(task_queues[GroupOf(d)])
       IN  /\ task_queues' = [task_queues EXCEPT ![GroupOf(d)] = Tail(@)]
           /\ executed_on' = [executed_on EXCEPT ![test] = @ \cup {d}]
           /\ IF run_skips(test, d)
              THEN /\ result_queue' = Append(result_queue, run(test, d, <<>>))
                   /\ UNCHANGED <<running, cmds>>
              ELSE /\ running' = [running EXCEPT ![d] = @ \cup {test}]
                   /\ cmds' = [cmds EXCEPT ![test] = @ + 1]
                   /\ UNCHANGED result_queue
    /\ UNCHANGED <<pc, test_runs, todo, num_tasks, crashed, report,
                   rerun_tests, success, cooldowns, broken_checks, get_count,
                   results_of, statuses, fn_vars,
                   phase_vars, hung, main_vars, calls, add_count>>

\* the shell command of a task returns (or raises RuntimeError); the worker
\* makes the Result and puts it on the result queue
WorkerFinish(d) ==
    /\ workers_alive
    /\ \E test \in running[d] \ {hung} : \E outcome \in outcomes(test) :
        LET adb_result_tuple == shell_nocheck_wrap_errors(outcome)
            result == run(test, d, adb_result_tuple)
        IN  /\ result_queue' = Append(result_queue, result)
            /\ running' = [running EXCEPT ![d] = @ \ {test}]
            /\ statuses' = [statuses EXCEPT ![test] =
                               Append(@, adb_result_tuple[1])]
            /\ broken_checks' = [broken_checks EXCEPT ![test] =
                                    IF run_skips(test, d) THEN @ ELSE @ + 1]
    /\ UNCHANGED <<pc, test_runs, todo, task_queues, num_tasks, crashed,
                   report, rerun_tests, success, cooldowns, cmds, executed_on,
                   get_count, results_of, fn_vars,
                   phase_vars, hung, main_vars, calls, add_count>>

\* the task raises outside the failure channel (shell_nocheck raises
\* something that is no RuntimeError): the worker puts a TaskError and exits
WorkerRaises(d) ==
    /\ workers_alive
    /\ \E test \in running[d] \ {hung} :
        /\ result_queue' = Append(result_queue, TaskError(test))
        /\ running' = [running EXCEPT ![d] = @ \ {test}]
    /\ crashed' = [crashed EXCEPT ![d] = @ + 1]
    /\ UNCHANGED <<pc, test_runs, todo, task_queues, num_tasks, report,
                   rerun_tests, success, cooldowns, hist_vars, fn_vars,
                   phase_vars, hung, main_vars, calls, add_count>>

Next ==
    \/ SubmitTestRun
    \/ SubmitDone
    \/ GetResult
    \/ GetResultRaises
    \/ WaitDone
    \/ RestartFlaky
    \/ RequeueFlaky
    \/ RequeueDone
    \/ Summarize
    \/ \E d \in Devices : WorkerTake(d)
    \/ \E d \in Devices : WorkerFinish(d)
    \/ \E d \in Devices : WorkerRaises(d)

Spec == Init /\ [][Next]_vars

SpecPool == InitPool /\ [][Next]_vars

\* the driver thread, which is never suspended except inside get_result
Driver ==
    \/ SubmitTestRun
    \/ SubmitDone
    \/ GetResult
    \/ GetResultRaises
    \/ WaitDone
    \/ RestartFlaky
    \/ RequeueFlaky
    \/ RequeueDone
    \/ Summarize

FairSpec == Spec /\ WF_vars(Driver)

(***************************************************************************)
(* A remote command that never returns: shell_nocheck has no timeout, so   *)
(* the worker that issued it is stalled for the rest of the run.  Every    *)
(* other command eventually returns or raises, and every worker with a     *)
(* task to take eventually takes one.                                      *)
(***************************************************************************)
\* the run with no hung command: the driver is never suspended outside
\* get_result, every command returns or raises, every idle worker with a
\* task to take takes one
SpecWorkers ==
    /\ Init
    /\ [][Next]_vars
    /\ WF_vars(Driver)
    /\ \A d \in Devices :
           /\ WF_vars(WorkerTake(d))
           /\ WF_vars(WorkerFinish(d) \/ WorkerRaises(d))

(***************************************************************************)
(* A run whose tests are deterministic: the command of a TestRun ends the  *)
(* same way whenever and on whichever device of its group it runs, and no  *)
(* worker dies.  The submission order (any order of `todo`) and the        *)
(* interleaving of the workers stay free.                                  *)
(***************************************************************************)
InitDeterministic ==
    /\ \E runs \in {S \in SUBSET DriverRuns : Cardinality(S) <= MaxRuns} :
        /\ InitWith(runs)
        /\ outcome_of \in [runs -> DeviceOutcomes]
    /\ arg = <<>>
    /\ ret = <<>>

NextDeterministic ==
    \/ SubmitTestRun
    \/ SubmitDone
    \/ GetResult
    \/ WaitDone
    \/ RestartFlaky
    \/ RequeueFlaky
    \/ RequeueDone
    \/ Summarize
    \/ \E d \in Devices : WorkerTake(d)
    \/ \E d \in Devices : WorkerFinish(d)

SpecDeterministic == InitDeterministic /\ [][NextDeterministic]_vars

(***************************************************************************)
(* A run in which every submitted task completes: every command returns,   *)
(* no worker raises outside the failure channel, every idle worker with a  *)
(* task to take takes one, and the driver runs whenever it can.            *)
(***************************************************************************)
SpecCompleting ==
    /\ Init
    /\ [][NextDeterministic]_vars
    /\ WF_vars(Driver)
    /\ \A d \in Devices :
           /\ WF_vars(WorkerTake(d))
           /\ WF_vars(WorkerFinish(d))

WorkerHangs(d) ==
    /\ workers_alive
    /\ hung = None
    /\ \E test \in running[d] : hung' = test
    /\ UNCHANGED <<pc, test_runs, todo, queue_vars, report, rerun_tests,
                   success, cooldowns, hist_vars, fn_vars, phase_vars,
                   add_count, main_vars, calls>>

NextHang ==
    \/ Next
    \/ \E d \in Devices : WorkerHangs(d)

SpecHang ==
    /\ Init
    /\ [][NextHang]_vars
    /\ WF_vars(Driver)
    /\ \A d \in Devices :
           /\ WF_vars(WorkerTake(d))
           /\ WF_vars(WorkerFinish(d) \/ WorkerRaises(d))

(***************************************************************************)
(* run_tests from device discovery on: find the devices, check that every  *)
(* requested device is there, match the configurations, clean (optional),  *)
(* push, then run as above.                                                *)
(***************************************************************************)
run_vars == <<test_runs, todo, queue_vars, report, rerun_tests, cooldowns,
              hist_vars, fn_vars, hung, add_count>>

\* run_vars but for the local variable report
run_vars_but_report ==
    <<test_runs, todo, queue_vars, rerun_tests, cooldowns, hist_vars, fn_vars,
      hung, add_count>>

\* enumerate_tests found at least one test, at most MaxCases, which pair
\* into at most MaxPaired TestRuns on the devices attached
InitRunTests ==
    /\ pc = "find_devices"
    /\ test_runs = {}
    /\ todo = {}
    /\ args \in [require_all_devices : BOOLEAN, clean_device : BOOLEAN]
    /\ adb_devices \in SUBSET DeviceGroups
    /\ \E found \in SUBSET (DOMAIN TestCases), keys \in SUBSET Configs :
        /\ found # {}
        /\ Cardinality(found) <= MaxCases
        /\ {config_of(tc) : tc \in found} \subseteq keys
        /\ test_groups = [c \in keys |-> {tc \in found : config_of(tc) = c}]
    /\ Cardinality(pair_test_runs(test_groups,
           match_configs_to_device_groups(find_devices(adb_devices),
                                          DOMAIN test_groups))) <= MaxPaired
    /\ fleet = find_devices({})
    /\ groups_for_config = <<>>
    /\ workqueue = NewWorkQueue
    /\ calls = construct(<<"workqueue">>)
    /\ outcome_of = <<>>
    /\ plain_todo = <<>>
    /\ InitState
    /\ arg = <<>>
    /\ ret = <<>>

\* run_tests: fleet = find_devices(test_config['devices'], workqueue)
FindDevices ==
    /\ pc = "find_devices"
    /\ results' = with_timing_report("Device discovery")
    /\ fleet' = find_devices(adb_devices)
    /\ pc' = "verify"
    /\ UNCHANGED <<args, test_groups, adb_devices, groups_for_config,
                   workqueue, plain_todo, added, warnings, success, run_vars,
                   exit_status, outcome_of, calls>>

\* the check for missing devices never failing the run
VerifyDevices_only_warns ==
    /\ pc = "verify"
    /\ warnings' = warnings \cup
           {<<"Missing device configurations", m>> : m \in get_missing(fleet)}
    /\ pc' = "match"
    /\ UNCHANGED <<success, workqueue>>
    /\ UNCHANGED <<args, test_groups, adb_devices, fleet, groups_for_config,
                   plain_todo, added, run_vars, main_vars, calls>>

\* the run failing on a missing device whatever the command line asks
VerifyDevices_always_strict ==
    /\ pc = "verify"
    /\ warnings' = warnings \cup
           {<<"Missing device configurations", m>> : m \in get_missing(fleet)}
    /\ IF ~verify_have_all_requested_devices(fleet)
       THEN /\ success' = "False"
            /\ workqueue' = Terminated(workqueue)
            /\ calls' = calls \o finally(<<"workqueue">>)
            /\ pc' = "returned"
       ELSE /\ pc' = "match"
            /\ UNCHANGED <<success, workqueue, calls>>
    /\ UNCHANGED <<args, test_groups, adb_devices, fleet, groups_for_config,
                   plain_todo, added, run_vars, main_vars>>

\* run_tests: verify_have_all_requested_devices warns of the missing device
\* configurations; under --require-all-devices the run fails on them and
\* returns through the finally clause (terminate, join)
VerifyDevices ==
    /\ pc = "verify"
    /\ warnings' = warnings \cup
           {<<"Missing device configurations", m>> : m \in get_missing(fleet)}
    /\ IF args.require_all_devices /\ ~verify_have_all_requested_devices(fleet)
       THEN /\ Returns_with(Results_failed(the_results,
                    "Some requested devices were not available."))
            /\ workqueue' = Terminated(workqueue)
            /\ calls' = calls \o finally(<<"workqueue">>)
       ELSE /\ pc' = "match"
            /\ UNCHANGED <<success, workqueue, calls, results>>
    /\ UNCHANGED <<args, test_groups, adb_devices, fleet, groups_for_config,
                   plain_todo, added, run_vars, exit_status, outcome_of>>

\* run_tests: match the configurations, warn of those with no device, make
\* the Report; clear_test_directories or push_tests_to_devices is entered
MatchConfigs ==
    /\ pc = "match"
    /\ groups_for_config' =
           match_configs_to_device_groups(fleet, DOMAIN test_groups)
    /\ warnings' = warnings \cup
           {<<"No device found for", c>> :
                c \in find_configs_with_no_device(groups_for_config')}
    /\ IF args.clean_device
       THEN /\ pc' = "clean"
            /\ plain_todo' = clear_tasks(fleet)
       ELSE /\ pc' = "push"
            /\ plain_todo' = push_tasks(groups_for_config')
    /\ report' = <<>>
    /\ UNCHANGED <<args, test_groups, adb_devices, fleet, workqueue, added,
                   success, run_vars_but_report, main_vars, calls>>

\* WorkQueue.add_task
workqueue_add_task(task) ==
    /\ workqueue' = [workqueue EXCEPT !.task_queue = Append(@, task),
                                      !.num_tasks = @ + 1]
    /\ added' = Append(added, task)

\* WorkQueue.get_result returning a result
workqueue_get_result ==
    /\ workqueue.num_tasks # 0
    /\ Len(workqueue.result_queue) > 0
    /\ ~Head(workqueue.result_queue).error
    /\ workqueue' = [workqueue EXCEPT !.result_queue = Tail(@),
                                      !.num_tasks = @ - 1]

\* clear_test_directories: one iteration of its loops
ClearAddTask ==
    /\ pc = "clean"
    /\ Len(plain_todo) > 0
    /\ workqueue_add_task(Head(plain_todo))
    /\ plain_todo' = Tail(plain_todo)
    /\ UNCHANGED <<pc, args, test_groups, adb_devices, fleet,
                   groups_for_config, warnings, success, run_vars,
                   main_vars, calls>>

\* clear_test_directories: the loops end
ClearAddDone ==
    /\ pc = "clean"
    /\ Len(plain_todo) = 0
    /\ pc' = "clean_wait"
    /\ UNCHANGED <<phase_vars, success, run_vars, main_vars, calls>>

\* clear_test_directories: `while not workqueue.finished(): get_result()`
ClearGetResult ==
    /\ pc = "clean_wait"
    /\ workqueue_get_result
    /\ UNCHANGED <<pc, args, test_groups, adb_devices, fleet,
                   groups_for_config, plain_todo, added, warnings, success,
                   run_vars, main_vars, calls>>

\* clear_test_directories returns; push_tests_to_devices is entered
ClearDone ==
    /\ pc = "clean_wait"
    /\ workqueue.num_tasks = 0
    /\ results' = with_timing_report("Clean device")
    /\ pc' = "push"
    /\ plain_todo' = push_tasks(groups_for_config)
    /\ UNCHANGED <<args, test_groups, adb_devices, fleet, groups_for_config,
                   workqueue, added, warnings, success, run_vars,
                   exit_status, outcome_of, calls>>

\* push_tests_to_devices: one iteration of its loops
PushAddTask ==
    /\ pc = "push"
    /\ Len(plain_todo) > 0
    /\ workqueue_add_task(Head(plain_todo))
    /\ plain_todo' = Tail(plain_todo)
    /\ UNCHANGED <<pc, args, test_groups, adb_devices, fleet,
                   groups_for_config, warnings, success, run_vars,
                   main_vars, calls>>

\* push_tests_to_devices: the loops end, finish_workqueue_with_ui is entered
PushAddDone ==
    /\ pc = "push"
    /\ Len(plain_todo) = 0
    /\ pc' = "push_wait"
    /\ UNCHANGED <<phase_vars, success, run_vars, main_vars, calls>>

\* finish_workqueue_with_ui: `while not workqueue.finished(): get_result()`
PushGetResult ==
    /\ pc = "push_wait"
    /\ workqueue_get_result
    /\ UNCHANGED <<pc, args, test_groups, adb_devices, fleet,
                   groups_for_config, plain_todo, added, warnings, success,
                   run_vars, main_vars, calls>>

\* the ShardingWorkQueue made while the push queue is still running
PushDone_no_join ==
    /\ pc = "push_wait"
    /\ pc' = "pair"
    /\ UNCHANGED <<phase_vars, success, run_vars, main_vars, calls>>

\* push_tests_to_devices returns; the finally clause terminates and joins
\* the work queue
PushDone ==
    /\ pc = "push_wait"
    /\ workqueue.num_tasks = 0
    /\ results' = with_timing_report("Push")
    /\ workqueue' = Terminated(workqueue)
    /\ calls' = calls \o finally(<<"workqueue">>)
    /\ pc' = "pair"
    /\ UNCHANGED <<args, test_groups, adb_devices, fleet, groups_for_config,
                   plain_todo, added, warnings, success, run_vars,
                   exit_status, outcome_of>>

\* get_result raises the TaskError of a clean or push task; the finally
\* clause terminates and joins the work queue and the exception leaves
\* run_tests
PlainGetResultRaises ==
    /\ pc \in {"clean_wait", "push_wait"}
    /\ workqueue.num_tasks # 0
    /\ Len(workqueue.result_queue) > 0
    /\ Head(workqueue.result_queue).error
    /\ workqueue' = Terminated([workqueue EXCEPT !.result_queue = Tail(@)])
    /\ calls' = calls \o finally(<<"workqueue">>)
    /\ pc' = "raised"
    /\ UNCHANGED <<args, test_groups, adb_devices, fleet, groups_for_config,
                   plain_todo, added, warnings, success, run_vars, main_vars>>

\* run_tests: the ShardingWorkQueue is made and the test cases are paired
\* with the groups of their configuration (then shuffled)
PairTestRuns ==
    /\ pc = "pair"
    /\ test_runs' = pair_test_runs(test_groups, groups_for_config)
    /\ todo' = test_runs'
    /\ calls' = calls \o construct(work_queues(fleet))
    /\ pc' = "submit"
    /\ UNCHANGED <<phase_vars, success, queue_vars, report, rerun_tests,
                   cooldowns, hist_vars, fn_vars, hung, add_count, main_vars>>

\* a worker of the work queue takes the next clean or push task
PlainWorkerTake ==
    /\ ~workqueue.terminated
    /\ NumWorkers - Cardinality(workqueue.running) - workqueue.crashed > 0
    /\ Len(workqueue.task_queue) > 0
    /\ workqueue' = [workqueue EXCEPT
                         !.task_queue = Tail(@),
                         !.running = @ \cup {Head(workqueue.task_queue)}]
    /\ UNCHANGED <<pc, args, test_groups, adb_devices, fleet,
                   groups_for_config, plain_todo, added, warnings, success,
                   run_vars, main_vars, calls>>

\* the device commands of a clean or push task return
PlainWorkerFinish ==
    /\ ~workqueue.terminated
    /\ \E task \in workqueue.running :
        workqueue' = [workqueue EXCEPT
                         !.running = @ \ {task},
                         !.result_queue = Append(@, Done(task))]
    /\ UNCHANGED <<pc, args, test_groups, adb_devices, fleet,
                   groups_for_config, plain_todo, added, warnings, success,
                   run_vars, main_vars, calls>>

\* a device command of a clean or push task raises: the worker puts a
\* TaskError and exits
PlainWorkerRaises ==
    /\ ~workqueue.terminated
    /\ \E task \in workqueue.running :
        /\ workqueue' = [workqueue EXCEPT
                             !.running = @ \ {task},
                             !.crashed = @ + 1,
                             !.result_queue = Append(@, PlainTaskError(task))]
    /\ UNCHANGED <<pc, args, test_groups, adb_devices, fleet,
                   groups_for_config, plain_todo, added, warnings, success,
                   run_vars, main_vars, calls>>

(***************************************************************************)
(* main, after run_tests: the process exit status.                         *)
(***************************************************************************)
\* sys.exit(good)
sys_exit_good(flag) == [raises |-> None, status |-> IF flag THEN 0 ELSE 1]

\* sys.exit(flag) with a bool: True is exit status 1, False is 0
sys_exit(flag) == [raises |-> None, status |-> IF flag THEN 1 ELSE 0]

\* an exception leaving main: traceback, exit status 1
uncaught(exc) == [raises |-> exc, status |-> 1]

\* main from `if results.success is None` on
main(results_success) ==
    IF results_success = None
    THEN uncaught("RuntimeError")
    ELSE LET good == results_success = "True"
         IN  sys_exit(~good)

\* main: run_tests has returned its Results, or its exception passes through
Main ==
    /\ pc \in {"returned", "raised"}
    /\ exit_status = <<>>
    /\ exit_status' = <<IF pc = "raised" THEN uncaught("TaskError")
                        ELSE main(success)>>
    /\ UNCHANGED <<pc, success, phase_vars, run_vars, calls, outcome_of,
                   results>>

NextRunTests ==
    \/ FindDevices
    \/ VerifyDevices
    \/ MatchConfigs
    \/ ClearAddTask
    \/ ClearAddDone
    \/ ClearGetResult
    \/ ClearDone
    \/ PushAddTask
    \/ PushAddDone
    \/ PushGetResult
    \/ PushDone
    \/ PlainGetResultRaises
    \/ PairTestRuns
    \/ PlainWorkerTake
    \/ PlainWorkerFinish
    \/ PlainWorkerRaises
    \/ Next
    \/ Main

SpecRunTests == InitRunTests /\ [][NextRunTests]_vars

(***************************************************************************)
(* TestRun.run as a function of the test, the device and the command's     *)
(* result.                                                                 *)
(***************************************************************************)
(***************************************************************************)
(* run_tests from its first line: the directories are checked, the tests   *)
(* are built in a build mode, the built tests are discovered, and the run  *)
(* goes on with device discovery as above.  The command line also says     *)
(* --rebuild and --build-only; the file system, the build report and the   *)
(* tests that discovery finds are chosen when the code reads them.         *)
(***************************************************************************)
\* the reports builder.build() can return: no test, a test that built, a
\* test that failed to build
BuildReports ==
    {<<>>, add_result(<<>>, "build", Success("build_test")),
     add_result(<<>>, "build", Failure("build_test", <<"FAIL">>))}

\* Report.num_tests
num_tests(rep) == Len(rep)

\* discovery finds at most one test less than the run from device discovery
\* on is given, and possibly none
InitStart ==
    /\ pc = "start"
    /\ test_runs = {}
    /\ todo = {}
    /\ args \in [require_all_devices : BOOLEAN, clean_device : BOOLEAN,
                 rebuild : BOOLEAN, build_only : BOOLEAN]
    /\ adb_devices \in SUBSET DeviceGroups
    /\ test_groups = <<>>
    /\ fleet = find_devices({})
    /\ groups_for_config = <<>>
    /\ workqueue = NewWorkQueue
    /\ calls = <<>>
    /\ outcome_of = <<>>
    /\ plain_todo = <<>>
    /\ InitState
    /\ arg = <<>>
    /\ ret = <<>>

\* sys.exit(message): the message goes to stderr, the exit status is 1
sys_exit_message == [raises |-> None, status |-> 1]

\* run_tests: the test output directory and the test source directory; a
\* missing output directory is made in a build mode
StartRun ==
    /\ pc = "start"
    /\ \E test_dir_exists, test_src_exists \in BOOLEAN :
        IF \/ ~test_dir_exists /\ ~(args.rebuild \/ args.build_only)
           \/ ~test_src_exists
        THEN /\ pc' = "exited"
             /\ exit_status' = <<sys_exit_message>>
        ELSE /\ pc' = "build"
             /\ UNCHANGED exit_status
    /\ UNCHANGED <<success, phase_vars, run_vars, calls, outcome_of, results>>

\* the build step that goes on to discovery whatever the build reports
BuildTests_unchecked ==
    /\ pc = "build"
    /\ IF args.build_only \/ args.rebuild
       THEN /\ report' \in BuildReports
            /\ results' = with_timing_report("Build")
       ELSE UNCHANGED <<report, results>>
    /\ pc' = "build_only"
    /\ UNCHANGED <<success, phase_vars, run_vars_but_report, calls,
                   exit_status, outcome_of>>

\* run_tests: `if args.build_only or args.rebuild`: build, time the build,
\* fail on no tests or on an unsuccessful report
BuildTests ==
    /\ pc = "build"
    /\ IF args.build_only \/ args.rebuild
       THEN /\ report' \in BuildReports
            /\ LET timed == add_timing_report(the_results, "Build")
               IN  IF timed.raises # None
                   THEN Returns_with(timed)
                   ELSE IF num_tests(report') = 0
                   THEN Returns_with(Results_failed(timed.self,
                                         "Found no tests for filter"))
                   ELSE IF ~successful(report')
                   THEN Returns_with(Results_failed(timed.self, None))
                   ELSE /\ pc' = "build_only"
                        /\ results' = with_timing_report("Build")
                        /\ UNCHANGED success
       ELSE /\ pc' = "build_only"
            /\ UNCHANGED <<success, results, report>>
    /\ UNCHANGED <<phase_vars, run_vars_but_report, calls, exit_status,
                   outcome_of>>

\* run_tests: `if args.build_only: results.passed(); return results`
BuildOnly ==
    /\ pc = "build_only"
    /\ IF args.build_only
       THEN Returns_with(Results_passed(the_results))
       ELSE /\ pc' = "discover"
            /\ UNCHANGED <<success, results>>
    /\ UNCHANGED <<phase_vars, run_vars, calls, exit_status, outcome_of>>

\* the discovery step that goes on to the devices with no test to run
DiscoverTests_goes_on ==
    /\ pc = "discover"
    /\ test_groups' = [c \in {} |-> {}]
    /\ results' = with_timing_report("Test discovery")
    /\ calls' = calls \o construct(<<"workqueue">>)
    /\ pc' = "find_devices"
    /\ UNCHANGED <<success, args, adb_devices, fleet, groups_for_config,
                   workqueue, plain_todo, added, warnings, run_vars,
                   exit_status, outcome_of>>

\* run_tests: enumerate_tests, timed; with no test in any configuration the
\* run ends, passed if the tests were rebuilt and failed otherwise; else the
\* work queue of the device phases is made
DiscoverTests ==
    /\ pc = "discover"
    /\ \E found \in SUBSET (DOMAIN TestCases), keys \in SUBSET Configs :
        /\ Cardinality(found) <= MaxCases - 1
        /\ {config_of(tc) : tc \in found} \subseteq keys
        /\ test_groups' = [c \in keys |-> {tc \in found : config_of(tc) = c}]
        /\ Cardinality(pair_test_runs(test_groups',
               match_configs_to_device_groups(find_devices(adb_devices),
                                              DOMAIN test_groups'))) <= MaxPaired - 1
        /\ LET timed == add_timing_report(the_results, "Test discovery")
           IN  IF timed.raises # None
               THEN Returns_with(timed) /\ UNCHANGED calls
               ELSE IF found = {}
               THEN /\ Returns_with(
                           IF args.rebuild THEN Results_passed(timed.self)
                           ELSE Results_failed(timed.self,
                                               "Found no tests in dist"))
                    /\ UNCHANGED calls
               ELSE /\ pc' = "find_devices"
                    /\ results' = with_timing_report("Test discovery")
                    /\ calls' = calls \o construct(<<"workqueue">>)
                    /\ UNCHANGED success
    /\ UNCHANGED <<args, adb_devices, fleet, groups_for_config, workqueue,
                   plain_todo, added, warnings, run_vars, exit_status,
                   outcome_of>>

NextStart ==
    \/ StartRun
    \/ BuildTests
    \/ BuildOnly
    \/ DiscoverTests
    \/ NextRunTests

SpecStart == InitStart /\ [][NextStart]_vars

ExitStatuses == {0, 1, 139}

Outputs == {<<"ok">>, <<"FAIL">>, <<"Traceback">> \o FlakeMarker}

InitRun ==
    /\ InitWith({})
    /\ \E test \in AllRuns, device \in Devices,
          status \in ExitStatuses, out \in Outputs :
            arg = <<test, device, <<status, out, <<>>>>>>
    /\ outcome_of = <<>>
    /\ ret = <<>>

ApplyRun ==
    /\ ret = <<>>
    /\ ret' = <<run(arg[1], arg[2], arg[3])>>
    /\ UNCHANGED <<pc, test_runs, todo, queue_vars, report, rerun_tests,
                   success, cooldowns, hist_vars, arg,
                   phase_vars, hung, main_vars, calls, add_count>>

SpecRun == InitRun /\ [][ApplyRun]_vars

(***************************************************************************)
(* Properties.                                                             *)
(***************************************************************************)
(***************************************************************************)
(* Test discovery as a function of the dist directory and the ABIs of the  *)
(* test config.  A directory name is the sequence of the parts that its    *)
(* hyphens separate (arm64-v8a-24 is <<"arm64", "v8a", "24">>); an ABI is  *)
(* written the same way.  A file is <<stem, extension>>.  The tests of a   *)
(* configuration are kept as a set: os.listdir gives no order.             *)
(***************************************************************************)
MaxDirs == 3

DirNames ==
    {<<"arm64", "v8a", "24">>, <<"arm64", "v8a", "28">>,
     <<"armeabi", "v7a", "16">>, <<"x86", "24">>}

AllAbis == {<<"arm64", "v8a">>, <<"armeabi", "v7a">>, <<"x86">>}

BuildSystems == {"cmake", "libcxx", "ndk-build"}

\* what lies under <dist>/<config>/<build system>: <<suite, file>>
DistFiles(test_type) ==
    CASE test_type = "cmake" ->
             {<<"suite", <<"exe", "">>>>, <<"suite", <<"libfoo", ".so">>>>}
      [] test_type = "ndk-build" ->
             {<<"vulkan", <<"exe", "">>>>, <<"vulkan", <<"run", ".sh">>>>}
      [] test_type = "libcxx" ->
             {<<"libc++/std/thread", <<"a.pass.cpp", ".exe">>>>,
              <<"libc++", <<"b.pass.cpp", ".dat">>>>}

\* BuildConfiguration.from_string: the ABI before the last hyphen, the API
\* level after it
from_string(build_cfg_str) ==
    [abi |-> SubSeq(build_cfg_str, 1, Len(build_cfg_str) - 1),
     api |-> build_cfg_str[Len(build_cfg_str)]]

\* str(build_cfg)
to_string(build_cfg) == Append(build_cfg.abi, build_cfg.api)

\* a ConfigFilter that lets every configuration through
filter_accepts_all(config_abis, build_config) == TRUE

\* ConfigFilter.filter
filter(config_abis, build_config) == build_config.abi \in config_abis

\* TestFilter.filter: None admits every name
filter_name(test_filter, test_name) ==
    test_filter = None \/ test_name = test_filter

\* TestCase.__init__ through BasicTestCase / LibcxxTestCase
NewTestCase(test_name, suite, executable, config, system) ==
    [name |-> test_name, suite |-> suite, executable |-> executable,
     config |-> config, build_system |-> system]

\* enumerate_basic_tests
enumerate_basic_tests(dist, build_cfg, test_type, test_filter) ==
    IF to_string(build_cfg) \notin dist.dirs \/ test_type \notin dist.systems
    THEN {}
    ELSE {NewTestCase(<<f[1], ".", f[2][1]>>, f[1], f[2], build_cfg, test_type) :
            f \in {g \in DistFiles(test_type) :
                      /\ g[2][2] \notin {".so", ".sh"}
                      /\ filter_name(test_filter, <<g[1], ".", g[2][1]>>)}}

\* enumerate_libcxx_tests
enumerate_libcxx_tests(dist, build_cfg, test_type, test_filter) ==
    IF to_string(build_cfg) \notin dist.dirs \/ test_type \notin dist.systems
    THEN {}
    ELSE {NewTestCase(<<"libc++", ".", f[1], "/", f[2][1]>>, f[1], f[2],
                      build_cfg, "libc++") :
            f \in {g \in DistFiles(test_type) :
                      /\ g[2][2] = ".exe"
                      /\ filter_name(test_filter,
                                     <<"libc++", ".", g[1], "/", g[2][1]>>)}}

\* test_subdir_class_map
scan_for_tests(dist, build_cfg, test_type, test_filter) ==
    IF test_type = "libcxx"
    THEN enumerate_libcxx_tests(dist, build_cfg, test_type, test_filter)
    ELSE enumerate_basic_tests(dist, build_cfg, test_type, test_filter)

\* enumerate_tests: {BuildConfiguration: tests}
enumerate_tests(dist, test_filter, config_abis) ==
    LET kept == {build_cfg \in {from_string(d) : d \in dist.dirs} :
                    filter(config_abis, build_cfg)}
    IN  [build_cfg \in kept |->
            UNION {scan_for_tests(dist, build_cfg, test_type, test_filter) :
                      test_type \in BuildSystems}]

TestFilters == {None, <<"suite", ".", "exe">>}

InitEnumerate ==
    /\ InitWith({})
    /\ \E dirs \in SUBSET DirNames, systems \in SUBSET BuildSystems,
          test_filter \in TestFilters, config_abis \in SUBSET AllAbis :
        /\ Cardinality(dirs) <= MaxDirs
        /\ arg = <<[dirs |-> dirs, systems |-> systems], test_filter,
                   config_abis>>
    /\ outcome_of = <<>>
    /\ ret = <<>>

ApplyEnumerate ==
    /\ ret = <<>>
    /\ ret' = <<enumerate_tests(arg[1], arg[2], arg[3])>>
    /\ UNCHANGED <<pc, test_runs, todo, queue_vars, report, rerun_tests,
                   success, cooldowns, hist_vars, arg,
                   phase_vars, hung, main_vars, calls, add_count>>

SpecEnumerate == InitEnumerate /\ [][ApplyEnumerate]_vars

(***************************************************************************)
(* ndk.graph.  A node is known by its name, and there is one Node object   *)
(* per name, so that comparing nodes (__cmp__, by name) and looking them   *)
(* up in the visited set (by identity) agree.  A Graph object is its       *)
(* sorted node list and, per node, the list `outs`.  Node.__init__ sorts   *)
(* the out-list it is given; an edge that closes a cycle can only be       *)
(* added to a node after both its ends exist (node.outs.append), and       *)
(* stays where it was appended.                                            *)
(***************************************************************************)
MaxEdges == 4

Names == {"a", "b", "c"}

\* the order of the names
NameOrder == <<"a", "b", "c">>

\* Node.__cmp__: cmp(self.name, other.name)
cmp(node, other) ==
    LET rank(n) == CHOOSE i \in 1..Len(NameOrder) : NameOrder[i] = n
    IN  IF rank(node) < rank(other) THEN -1
        ELSE IF rank(node) > rank(other) THEN 1 ELSE 0

\* a list kept in the order it was given
unsorted(list) == list

\* sorted(list): a stable sort by cmp
RECURSIVE sorted(_)
sorted(list) ==
    IF Len(list) <= 1
    THEN list
    ELSE LET last == list[Len(list)]
             rest == sorted(SubSeq(list, 1, Len(list) - 1))
             k == Cardinality({i \in 1..Len(rest) : cmp(rest[i], last) <= 0})
         IN  SubSeq(rest, 1, k) \o <<last>> \o SubSeq(rest, k + 1, Len(rest))

\* Node(name, outs).outs
NewNode(outs) == sorted(outs)

\* Graph(nodes), each node made by Node(name, given) and then extended by
\* node.outs.append for every entry of `appended`
NewGraph(nodes, lists) ==
    [nodes |-> sorted(nodes),
     outs |-> [n \in Names |-> NewNode(lists[n].given) \o lists[n].appended]]

\* path.index(node) taken to be the start of the list
index_zero(path, node) == 1

\* path.index(node): the first position holding the node
index(path, node) ==
    CHOOSE i \in 1..Len(path) :
        path[i] = node /\ \A j \in 1..(i - 1) : path[j] # node

\* Graph.find_cycle_from_node, with the set `visited` and the list `path`
\* as the call leaves them; cycle is <<>> for None, <<list>> for a list.
\* `visited` is kept as the sequence of the nodes handed to visited.add,
\* in that order; `node in visited` is membership in its range.
RECURSIVE find_cycle_from_node(_, _, _, _)
RECURSIVE find_cycle_in_outs(_, _, _, _)

\* find_cycle_from_node without the `if node in visited` short circuit
find_cycle_from_node_revisiting(graph, node, visited, path) ==
    LET pushed == Append(path, node)
    IN  IF node \in Range(path)
        THEN [cycle |-> <<SubSeq(pushed, index(pushed, node), Len(pushed))>>,
              visited |-> visited, path |-> pushed]
        ELSE find_cycle_in_outs(graph, graph.outs[node],
                                Append(visited, node), pushed)

find_cycle_from_node(graph, node, visited, path) ==
    LET pushed == Append(path, node)
    IN  IF node \in Range(path)
        THEN [cycle |-> <<SubSeq(pushed, index(pushed, node), Len(pushed))>>,
              visited |-> visited, path |-> pushed]
        ELSE IF node \in Range(visited)
        THEN [cycle |-> <<>>, visited |-> visited, path |-> path]
        ELSE find_cycle_in_outs(graph, graph.outs[node],
                                Append(visited, node), pushed)

\* `for in_node in node.outs` of find_cycle_from_node, then path.pop()
find_cycle_in_outs(graph, outs, visited, path) ==
    IF outs = <<>>
    THEN [cycle |-> <<>>, visited |-> visited,
          path |-> SubSeq(path, 1, Len(path) - 1)]
    ELSE LET found == find_cycle_from_node(graph, Head(outs), visited, path)
         IN  IF found.cycle # <<>>
             THEN found
             ELSE find_cycle_in_outs(graph, Tail(outs), found.visited,
                                     found.path)

\* `for node in self.nodes` of find_cycle, each search with a fresh path
RECURSIVE find_cycle_from_nodes(_, _, _)
find_cycle_from_nodes(graph, nodes, visited) ==
    IF nodes = <<>>
    THEN [cycle |-> <<>>, visited |-> visited]
    ELSE LET found == find_cycle_from_node(graph, Head(nodes), visited, <<>>)
         IN  IF found.cycle # <<>>
             THEN [cycle |-> found.cycle, visited |-> found.visited]
             ELSE find_cycle_from_nodes(graph, Tail(nodes), found.visited)

\* find_cycle searching from the first node only
find_cycle_from_first(graph) ==
    find_cycle_from_nodes(graph, SubSeq(graph.nodes, 1, 1), <<>>).cycle

\* Graph.find_cycle: <<>> for None, <<cycle>> for a cycle
find_cycle(graph) == find_cycle_from_nodes(graph, graph.nodes, <<>>).cycle

\* the local `visited` of find_cycle when it returns
find_cycle_visited(graph) ==
    find_cycle_from_nodes(graph, graph.nodes, <<>>).visited

\* the lists without a repeated name
NameLists ==
    {list \in UNION {[1..k -> Names] : k \in 0..Cardinality(Names)} :
        \A i, j \in 1..Len(list) : list[i] = list[j] => i = j}

\* what a node's outs are made of: the list given to Node() and the nodes
\* appended afterwards, at most `edges` in all
NodeLists(edges) ==
    {lists \in [given : NameLists, appended : NameLists] :
        /\ Range(lists.given) \cap Range(lists.appended) = {}
        /\ Len(lists.given) + Len(lists.appended) <= edges}

Edges(lists) == Len(lists.given) + Len(lists.appended)

\* the nodes named in `given` exist before the node is made: some order of
\* construction has every node after the nodes of its given list
Constructible(lists) ==
    \E order \in {list \in NameLists : Len(list) = Cardinality(Names)} :
        \A i \in 1..Len(order) :
            Range(lists[order[i]].given) \subseteq {order[j] : j \in 1..(i - 1)}

InitGraph ==
    /\ InitWith({})
    /\ \E a \in NodeLists(MaxEdges) :
       \E b \in NodeLists(MaxEdges - Edges(a)) :
       \E c \in NodeLists(MaxEdges - Edges(a) - Edges(b)) :
       \E nodes \in {list \in NameLists : Len(list) = Cardinality(Names)} :
        /\ Constructible([a |-> a, b |-> b, c |-> c])
        /\ arg = [nodes |-> nodes, lists |-> [a |-> a, b |-> b, c |-> c]]
    /\ outcome_of = <<>>
    /\ ret = <<>>

ApplyFindCycle ==
    /\ ret = <<>>
    /\ ret' = <<find_cycle(NewGraph(arg.nodes, arg.lists)),
                 find_cycle_visited(NewGraph(arg.nodes, arg.lists))>>
    /\ UNCHANGED <<pc, test_runs, todo, queue_vars, report, rerun_tests,
                   success, cooldowns, hist_vars, arg,
                   phase_vars, hung, main_vars, calls, add_count>>

SpecGraph == InitGraph /\ [][ApplyFindCycle]_vars

(***************************************************************************)
(* ndk.test.types: the build test classes and LibcxxTest.  Objects live in *)
(* a heap, a sequence of BuildConfiguration values; a reference is an      *)
(* index into it, so that a constructor that assigns to the object it was  *)
(* given differs from one that builds a new object.  An API level is       *)
(* <<>> for None and <<n>> for the integer n.  A line of Application.mk    *)
(* is the sequence of its tokens; a file is the sequence of its lines.     *)
(***************************************************************************)
MaxLines == 2

TestClasses ==
    {"PythonBuildTest", "ShellBuildTest", "NdkBuildTest", "CMakeBuildTest",
     "LibcxxTest"}

ApiLevels == {<<>>, <<14>>, <<16>>, <<21>>, <<28>>}

\* ndk.abis.min_api_for_abi: 21 for the 64-bit ABI, 16 for the 32-bit ones
min_api_for_abi(abi) == IF abi = <<"arm64", "v8a">> THEN 21 ELSE 16

\* ndk.test.spec.BuildConfiguration(abi, api)
BuildConfiguration(abi, api) == [abi |-> abi, api |-> api]

Whitespace == {" ", "\n"}

\* str.startswith
startswith(str, prefix) ==
    Len(str) >= Len(prefix) /\ SubSeq(str, 1, Len(prefix)) = prefix

\* str.split(sep) for a separator of one token: the parts between its
\* occurrences
RECURSIVE split(_, _)
split(str, sep) ==
    IF \A i \in 1..Len(str) : str[i] # sep
    THEN <<str>>
    ELSE LET i == CHOOSE j \in 1..Len(str) :
                      str[j] = sep /\ \A k \in 1..(j - 1) : str[k] # sep
         IN  <<SubSeq(str, 1, i - 1)>> \o split(SubSeq(str, i + 1, Len(str)), sep)

\* str.strip()
RECURSIVE strip(_)
strip(str) ==
    IF str # <<>> /\ Head(str) \in Whitespace THEN strip(Tail(str))
    ELSE IF str # <<>> /\ str[Len(str)] \in Whitespace
         THEN strip(SubSeq(str, 1, Len(str) - 1))
         ELSE str

\* the decimal numerals of the files
Numerals == [n \in {"14", "16", "21", "28"} |->
                CASE n = "14" -> 14 [] n = "16" -> 16
                  [] n = "21" -> 21 [] n = "28" -> 28]

\* the first line that starts with APP_PLATFORM (for ... break), <<>> when
\* the loop ends without one (for ... else)
first_app_platform(lines) ==
    LET found == {i \in 1..Len(lines) : startswith(lines[i], <<"APP_PLATFORM">>)}
    IN  IF found = {} THEN <<>>
        ELSE <<lines[CHOOSE i \in found : \A j \in found : i <= j]>>

\* _platform_from_application_mk
_platform_from_application_mk(test_dir) ==
    IF ~test_dir.exists THEN [raises |-> None, value |-> <<>>]
    ELSE LET line == first_app_platform(test_dir.lines)
         IN  IF line = <<>> THEN [raises |-> None, value |-> <<>>]
             ELSE LET halves == split(line[1], ":=")
                  IN  IF Len(halves) # 2
                      THEN [raises |-> "ValueError", value |-> <<>>]
                      ELSE LET platform_str == strip(halves[2])
                               parts == split(platform_str, "-")
                           IN  IF ~startswith(platform_str, <<"android", "-">>)
                               THEN [raises |-> "ValueError", value |-> <<>>]
                               ELSE IF Len(parts) # 2
                               THEN [raises |-> "ValueError", value |-> <<>>]
                               ELSE IF Len(parts[2]) # 1
                                       \/ parts[2][1] \notin DOMAIN Numerals
                               THEN [raises |-> "ValueError", value |-> <<>>]
                               ELSE [raises |-> None,
                                     value |-> <<Numerals[parts[2][1]]>>]

\* _get_or_infer_app_platform that prefers Application.mk to the user
_get_or_infer_app_platform_file_first(platform_from_user, test_dir, abi) ==
    LET minimum_version == min_api_for_abi(abi)
        platform_from_application_mk == _platform_from_application_mk(test_dir)
    IN  IF platform_from_application_mk.raises # None
        THEN platform_from_application_mk
        ELSE IF platform_from_application_mk.value # <<>>
                /\ platform_from_application_mk.value[1] >= minimum_version
        THEN platform_from_application_mk
        ELSE IF platform_from_user # <<>>
        THEN [raises |-> None, value |-> platform_from_user]
        ELSE [raises |-> None, value |-> <<minimum_version>>]

\* _get_or_infer_app_platform
_get_or_infer_app_platform(platform_from_user, test_dir, abi) ==
    IF platform_from_user # <<>>
    THEN [raises |-> None, value |-> platform_from_user]
    ELSE LET minimum_version == min_api_for_abi(abi)
             platform_from_application_mk ==
                 _platform_from_application_mk(test_dir)
         IN  IF platform_from_application_mk.raises # None
             THEN platform_from_application_mk
             ELSE IF platform_from_application_mk.value # <<>>
                     /\ platform_from_application_mk.value[1] >= minimum_version
             THEN platform_from_application_mk
             ELSE [raises |-> None, value |-> <<minimum_version>>]

\* Test.__init__: self.config is the reference it was given
Test(cls, test_name, test_dir, heap, config) ==
    [raises |-> None, heap |-> heap,
     self |-> <<[cls |-> cls, name |-> test_name, test_dir |-> test_dir,
                 config |-> config]>>]

\* BuildTest.__init__
BuildTest(cls, test_name, test_dir, heap, config) ==
    IF heap[config].api = <<>>
    THEN [raises |-> "ValueError", heap |-> heap, self |-> <<>>]
    ELSE Test(cls, test_name, test_dir, heap, config)

\* PythonBuildTest.__init__, ShellBuildTest.__init__: a new configuration
\* object carries the default API level
PythonBuildTest(cls, test_name, test_dir, heap, config) ==
    LET api == IF heap[config].api = <<>>
               THEN <<min_api_for_abi(heap[config].abi)>>
               ELSE heap[config].api
        made == Append(heap, BuildConfiguration(heap[config].abi, api))
        built == BuildTest(cls, test_name, test_dir, made, Len(made))
    IN  IF built.raises = None /\ cls = "PythonBuildTest"
           /\ made[Len(made)].abi \notin AllAbis
        THEN [raises |-> "ValueError", heap |-> made, self |-> <<>>]
        ELSE built

\* NdkBuildTest.__init__, CMakeBuildTest.__init__
NdkBuildTest(cls, test_name, test_dir, heap, config) ==
    LET api == _get_or_infer_app_platform(heap[config].api, test_dir,
                                          heap[config].abi)
        made == Append(heap, BuildConfiguration(heap[config].abi, api.value))
    IN  IF api.raises # None
        THEN [raises |-> api.raises, heap |-> heap, self |-> <<>>]
        ELSE BuildTest(cls, test_name, test_dir, made, Len(made))

\* LibcxxTest.__init__: config.api = ... assigns to the object passed in
LibcxxTest(cls, test_name, test_dir, heap, config) ==
    LET defaulted == IF heap[config].api = <<>>
               THEN [heap EXCEPT ![config].api =
                        <<min_api_for_abi(heap[config].abi)>>]
               ELSE heap
    IN  Test(cls, test_name, test_dir, defaulted, config)

\* cls(name, test_dir, config, ndk_path)
NewTestObject(cls, test_name, test_dir, heap, config) ==
    CASE cls \in {"PythonBuildTest", "ShellBuildTest"} ->
             PythonBuildTest(cls, test_name, test_dir, heap, config)
      [] cls \in {"NdkBuildTest", "CMakeBuildTest"} ->
             NdkBuildTest(cls, test_name, test_dir, heap, config)
      [] cls = "LibcxxTest" ->
             LibcxxTest(cls, test_name, test_dir, heap, config)

\* the lines the Application.mk files are made of
MkLines ==
    {<<"APP_ABI", " ", ":=", " ", "all", "\n">>,
     <<"APP_PLATFORM", " ", ":=", " ", "android", "-", "14", "\n">>,
     <<"APP_PLATFORM", " ", ":=", " ", "android", "-", "21", "\n">>,
     <<"APP_PLATFORM", ":=", "android", "-", "28">>,
     <<"APP_PLATFORM", " ", ":=", " ", "latest", "\n">>,
     <<"APP_PLATFORM", " ", ":=", " ", "android", "-", "L", "\n">>,
     <<"APP_PLATFORM", " ", "?=", " ", "android", "-", "21", "\n">>}

\* a test directory: whether jni/Application.mk exists, and its lines
TestDirs ==
    {[exists |-> FALSE, lines |-> <<>>]}
        \cup {[exists |-> TRUE, lines |-> lines] :
                lines \in UNION {[1..n -> MkLines] : n \in 0..MaxLines}}

InitTypes ==
    /\ InitWith({})
    /\ \E cls \in TestClasses, abi \in AllAbis, api \in ApiLevels,
          test_dir \in TestDirs :
            arg = [cls |-> cls, config |-> BuildConfiguration(abi, api),
                   test_dir |-> test_dir]
    /\ outcome_of = <<>>
    /\ ret = <<>>

\* the caller holds the configuration as object 1 and constructs a test
ApplyConstruct ==
    /\ ret = <<>>
    /\ ret' = <<[op |-> "construct",
                 made |-> NewTestObject(arg.cls, "test", arg.test_dir,
                                        <<arg.config>>, 1)]>>
    /\ UNCHANGED <<pc, test_runs, todo, queue_vars, report, rerun_tests,
                   success, cooldowns, hist_vars, arg,
                   phase_vars, hung, main_vars, calls, add_count>>

ApplyInfer ==
    /\ ret = <<>>
    /\ ret' = <<[op |-> "infer",
                 platform |-> _get_or_infer_app_platform(
                     arg.config.api, arg.test_dir, arg.config.abi)]>>
    /\ UNCHANGED <<pc, test_runs, todo, queue_vars, report, rerun_tests,
                   success, cooldowns, hist_vars, arg,
                   phase_vars, hung, main_vars, calls, add_count>>

NextTypes == ApplyConstruct \/ ApplyInfer

SpecTypes == InitTypes /\ [][NextTypes]_vars

(***************************************************************************)
(* get_xunit_reports.  The xunit file is a tree: the root holds test       *)
(* suites, a suite holds elements, an element has a tag, the attributes    *)
(* classname and name, and children with a tag and a text.  Names are      *)
(* sequences of tokens; the one-character tokens are ".", "_" and "/".     *)
(***************************************************************************)
MaxElements == 2

\* LibcxxTestScanner.ALL_TESTS: the original tests, relative to the libc++
\* test directory
ALL_TESTS ==
    <<<<"std", "/", "ab", ".", "cpp">>, <<"std", "/", "ab", "_", "cpp">>,
      <<"std", "/", "cd", ".", "cpp">>, <<"ef", ".", "cpp">>>>

Characters == {".", "_", "/"}

\* str.replace('_', '?')
replace(str, old, new) ==
    [i \in 1..Len(str) |-> IF str[i] = old THEN new ELSE str[i]]

\* fnmatch of one name: ? stands for any one character
fnmatch(str, pattern) ==
    /\ Len(str) = Len(pattern)
    /\ \A i \in 1..Len(str) :
          \/ pattern[i] = str[i]
          \/ pattern[i] = "?" /\ str[i] \in Characters

\* os.path.dirname: what precedes the last slash
dirname(path) ==
    LET slashes == {i \in 1..Len(path) : path[i] = "/"}
    IN  IF slashes = {} THEN <<>>
        ELSE SubSeq(path, 1, (CHOOSE i \in slashes : \A j \in slashes : j <= i) - 1)

\* find_original_libcxx_test
find_original_libcxx_test(mangled) ==
    LET unrooted == IF startswith(mangled, <<"libc++", ".", "libc++", "/">>)
                    THEN <<"libc++", ".">> \o SubSeq(mangled, 5, Len(mangled))
                    ELSE mangled
        test_prefix == <<"libc++", ".">>
        test_pattern ==
            replace(SubSeq(unrooted, 3, Len(unrooted)), "_", "?")
        matched == SelectSeq(ALL_TESTS, LAMBDA t : fnmatch(t, test_pattern))
    IN  IF ~startswith(unrooted, test_prefix)
        THEN [raises |-> "ValueError", value |-> <<>>]
        ELSE [raises |-> None,
              value |-> [i \in 1..Len(matched) |-> test_prefix \o matched[i]]]

\* Element.findall(tag) on the children of an element
findall(children, tag) == SelectSeq(children, LAMBDA e : e.tag = tag)

\* root.findall('.//testcase'): the test cases of all suites, in document
\* order
RECURSIVE findall_testcase(_)
findall_testcase(suites) ==
    IF suites = <<>> THEN <<>>
    ELSE findall(Head(suites), "testcase") \o findall_testcase(Tail(suites))

\* XunitSuccess(...) and XunitFailure(...)
XunitResult(cls, test_name, test_dir, text, config) ==
    [cls |-> cls, name |-> test_name, test_dir |-> test_dir, text |-> text,
     config |-> config]

\* the body of the loop that takes the first failure node when there are
\* several
xunit_report_first_failure(test_case, config) ==
    LET mangled_path == test_case.classname \o <<"/">> \o test_case.name
        test_matches == find_original_libcxx_test(mangled_path)
        test_name == test_matches.value[1]
        test_dir == SubSeq(dirname(test_name), 3, Len(dirname(test_name)))
        failure_nodes == findall(test_case.children, "failure")
    IN  IF test_matches.raises # None THEN test_matches
        ELSE IF Len(test_matches.value) # 1
        THEN [raises |-> "RuntimeError", value |-> <<>>]
        ELSE IF Len(failure_nodes) = 0
        THEN [raises |-> None,
              value |-> <<XunitResult("XunitSuccess", test_name, test_dir,
                                      None, config)>>]
        ELSE [raises |-> None,
              value |-> <<XunitResult("XunitFailure", test_name, test_dir,
                                      failure_nodes[1].text, config)>>]

\* the body of the loop of get_xunit_reports for one test case
xunit_report(test_case, config) ==
    LET mangled_path == test_case.classname \o <<"/">> \o test_case.name
        test_matches == find_original_libcxx_test(mangled_path)
        test_name == test_matches.value[1]
        test_dir == SubSeq(dirname(test_name), 3, Len(dirname(test_name)))
        failure_nodes == findall(test_case.children, "failure")
    IN  IF test_matches.raises # None THEN test_matches
        ELSE IF Len(test_matches.value) = 0
        THEN [raises |-> "RuntimeError", value |-> <<>>]
        ELSE IF Len(test_matches.value) > 1
        THEN [raises |-> "RuntimeError", value |-> <<>>]
        ELSE IF Len(failure_nodes) = 0
        THEN [raises |-> None,
              value |-> <<XunitResult("XunitSuccess", test_name, test_dir,
                                      None, config)>>]
        ELSE IF Len(failure_nodes) # 1
        THEN [raises |-> "RuntimeError", value |-> <<>>]
        ELSE [raises |-> None,
              value |-> <<XunitResult("XunitFailure", test_name, test_dir,
                                      failure_nodes[1].text, config)>>]

\* for test_case in cases: the reports so far, until an exception
RECURSIVE reports_of(_, _, _)
reports_of(cases, config, reports) ==
    IF cases = <<>> THEN [raises |-> None, value |-> <<reports>>]
    ELSE LET one == xunit_report(Head(cases), config)
         IN  IF one.raises # None
             THEN [raises |-> one.raises, value |-> <<>>]
             ELSE reports_of(Tail(cases), config, reports \o one.value)

\* get_xunit_reports
get_xunit_reports(xunit_file, config) ==
    reports_of(findall_testcase(xunit_file), config, <<>>)

\* the children a test case can have
ChildLists ==
    {<<>>, <<[tag |-> "system-out", text |-> "log"]>>,
     <<[tag |-> "failure", text |-> "boom"]>>,
     <<[tag |-> "system-out", text |-> "log"],
       [tag |-> "failure", text |-> "bang"]>>,
     <<[tag |-> "failure", text |-> "boom"],
       [tag |-> "failure", text |-> "bang"]>>}

\* classname and name of the test cases: one original, two originals, an
\* original in the root of the test directory, none, and a class name
\* outside libc++
CaseNames ==
    {<<<<"libc++", ".", "std">>, <<"cd", "_", "cpp">>>>,
     <<<<"libc++", ".", "std">>, <<"ab", "_", "cpp">>>>,
     <<<<"libc++", ".", "libc++">>, <<"ef", "_", "cpp">>>>,
     <<<<"libc++", ".", "std">>, <<"zz", "_", "cpp">>>>,
     <<<<"other", ".", "std">>, <<"cd", "_", "cpp">>>>}

Elements ==
    {[tag |-> "testcase", classname |-> n[1], name |-> n[2], children |-> c] :
        n \in CaseNames, c \in ChildLists}
        \cup {[tag |-> "properties", classname |-> <<>>, name |-> <<>>,
               children |-> <<>>]}

InitXunit ==
    /\ InitWith({})
    /\ \E n1 \in 0..MaxElements :
         \E suite1 \in [1..n1 -> Elements] :
           \E n2 \in 0..(MaxElements - n1) :
             \E suite2 \in [1..n2 -> Elements] :
               arg = [xunit_file |-> <<suite1, suite2>>,
                      config |-> BuildConfiguration(<<"x86">>, <<16>>)]
    /\ outcome_of = <<>>
    /\ ret = <<>>

ApplyXunit ==
    /\ ret = <<>>
    /\ ret' = <<get_xunit_reports(arg.xunit_file, arg.config)>>
    /\ UNCHANGED <<pc, test_runs, todo, queue_vars, report, rerun_tests,
                   success, cooldowns, hist_vars, arg,
                   phase_vars, hung, main_vars, calls, add_count>>

SpecXunit == InitXunit /\ [][ApplyXunit]_vars

\* the test config's declarations for a test on a device, read from the
\* test case itself
DeclaredUnsupported(test, device) ==
    Version(device) < TestCases[TestRuns[test].test_case].unsupported_below

DeclaredBroken(test, device) ==
    Version(device) < TestCases[TestRuns[test].test_case].broken_below

\* C1: the Result of TestRun.run is decided by (unsupported, broken, exit
\* status): unsupported gives Skipped whatever the rest; otherwise status 0
\* gives Success, or UnexpectedSuccess when declared broken, and a non-zero
\* status gives Failure, or ExpectedFailure when declared broken.
C1_ResultDerivation ==
    ret # <<>> =>
        LET test == arg[1]
            device == arg[2]
            status == arg[3][1]
            kind == ret[1].kind
        IN  /\ ret[1].test = test
            /\ kind =
                 IF DeclaredUnsupported(test, device) THEN "Skipped"
                 ELSE IF DeclaredBroken(test, device)
                      THEN (IF status = 0 THEN "UnexpectedSuccess"
                            ELSE "ExpectedFailure")
                      ELSE (IF status = 0 THEN "Success" ELSE "Failure")

\* a declared-broken, supported test whose command failed became an
\* ExpectedFailure
C1_Witness ==
    /\ ret # <<>>
    /\ ~DeclaredUnsupported(arg[1], arg[2])
    /\ DeclaredBroken(arg[1], arg[2])
    /\ arg[3][1] # 0
    /\ ret[1].kind = "ExpectedFailure"

\* C2: a test unsupported on the worker's device is Skipped with no remote
\* command issued for it and without check_broken being consulted.
C2_UnsupportedNeverRuns ==
    \A t \in AllRuns : \A d \in executed_on[t] :
        DeclaredUnsupported(t, d) =>
            /\ cmds[t] = 0
            /\ broken_checks[t] = 0
            /\ \A dd \in Devices : t \notin running[dd]
            /\ \A i \in 1..Len(result_queue) :
                   result_queue[i].test = t => result_queue[i].kind = "Skipped"
            /\ \A i \in 1..Len(results_of[t]) : results_of[t][i].kind = "Skipped"

\* an unsupported test was taken by a worker and its Skipped reached the driver
C2_Witness ==
    \E t \in AllRuns : \E d \in executed_on[t] :
        /\ DeclaredUnsupported(t, d)
        /\ Len(results_of[t]) = 1
        /\ results_of[t][1].kind = "Skipped"

\* C3: tasks added to two disjoint groups are each executed only by workers
\* of devices of their own group, and once the RUN phase has drained,
\* get_result has returned exactly one result per task added (N + M).
C3_ShardingDelivers ==
    /\ \A t \in AllRuns : executed_on[t] \subseteq DevicesOf(device_group(t))
    /\ pc = "restart" =>
        /\ get_count.wait1 = Cardinality(test_runs)
        /\ \A t \in test_runs : Len(results_of[t]) = 1 /\ executed_on[t] # {}

\* the RUN phase drained with tasks in both groups
C3_Witness ==
    /\ pc = "restart"
    /\ \E t1, t2 \in test_runs :
        /\ device_group(t1) = "g1" /\ device_group(t2) = "g2"
        /\ executed_on[t1] # {} /\ executed_on[t2] # {}

\* C4 as claimed: at most one task is executing against a device at a time.
C4_OneTaskPerDevice ==
    \A d \in Devices : Cardinality(running[d]) <= 1

\* C4 as amended: at most four tasks (one per worker process of the device)
\* are executing against a device at a time, each a task of the device's
\* own group.
C4_FourTasksPerDevice ==
    \A d \in Devices :
        /\ Cardinality(running[d]) + crashed[d] <= 4
        /\ \A t \in running[d] : d \in DevicesOf(device_group(t))

\* four commands are in flight on one device while a fifth task waits
C4_Witness ==
    /\ Cardinality(running["d3"]) = 4
    /\ task_queues["g2"] # <<>>

\* a Failure carrying the transport flake marker
MarkerFailure(result) ==
    /\ result.kind = "Failure"
    /\ Contains(<<"Could not find exit status in shell output.">>,
                result.message)

\* the Report's entries of one TestRun
ReportResults(t) == SelectSeq(report, LAMBDA r : r.result.test = t)

\* C5: no TestRun is executed more than twice, and when the run is
\* summarized a TestRun whose first Result was a marker Failure has been
\* executed exactly twice; the Report holds exactly its second Result, a
\* Success if the retry passed and a Failure if it failed again.
C5_FlakyRetriedOnce ==
    \A t \in AllRuns :
        /\ cmds[t] <= 2
        /\ (/\ pc \in {"summarize", "returned"}
            /\ results_of[t] # <<>>
            /\ MarkerFailure(results_of[t][1]))
           => /\ cmds[t] = 2
              /\ Len(results_of[t]) = 2
              /\ Len(statuses[t]) = 2
              /\ Len(ReportResults(t)) = 1
              /\ ReportResults(t)[1].result = results_of[t][2]
              /\ statuses[t][2] = 0 => results_of[t][2].kind = "Success"
              /\ statuses[t][2] # 0 => results_of[t][2].kind = "Failure"

\* one marker failure passed on retry and another failed again
C5_Witness ==
    /\ pc = "returned"
    /\ \E t1, t2 \in test_runs :
        /\ MarkerFailure(results_of[t1][1]) /\ MarkerFailure(results_of[t2][1])
        /\ Len(results_of[t1]) = 2 /\ results_of[t1][2].kind = "Success"
        /\ Len(results_of[t2]) = 2 /\ results_of[t2][2].kind = "Failure"

\* C6: at SUMMARIZE the Report holds exactly one Result for every TestRun
\* submitted, and nothing else.
C6_OneResultPerRun ==
    pc \in {"summarize", "returned"} =>
        /\ Len(report) = Cardinality(test_runs)
        /\ \A t \in test_runs : Len(ReportResults(t)) = 1

\* the run is summarized after a flaky failure was requeued and rerun
C6_Witness ==
    /\ pc = "summarize"
    /\ \E t \in test_runs : Len(results_of[t]) = 2

\* a report entry that is a Failure matching the flake predicate
IsFlakyFailure(r) ==
    /\ r.result.kind = "Failure"
    /\ \/ Contains(<<"Could not find exit status in shell output.">>,
                   r.result.message)
       \/ Contains(<<"libc++.", "libcxx/", "thread">>, name(r.result.test))
       \/ Contains(<<"libc++.", "std/", "thread">>, name(r.result.test))

NotFlakyFailure(r) == ~IsFlakyFailure(r)

\* C7: restart_flaky_tests takes out of the Report exactly the Failures that
\* match the flake predicate and requeues each to its group; everything
\* else, an UnexpectedSuccess included, stays in the Report in place.
C7_ExactlyFlakyFailuresRequeued ==
    [][/\ (pc = "restart" /\ pc' # pc) =>
            /\ rerun_tests' = SelectSeq(report, IsFlakyFailure)
            /\ report' = SelectSeq(report, NotFlakyFailure)
       /\ (pc = "requeue" /\ rerun_tests' # rerun_tests) =>
            /\ report' = report
            /\ rerun_tests' = Tail(rerun_tests)
            /\ num_tasks' = num_tasks + 1
            /\ LET test == Head(rerun_tests).result.test
               IN  task_queues' =
                       [task_queues EXCEPT ![device_group(test)] =
                            Append(@, test)]]_vars

\* a flaky failure is being requeued while an UnexpectedSuccess of a
\* thread test stays in the Report
C7_Witness ==
    /\ pc = "requeue"
    /\ rerun_tests # <<>>
    /\ \E i \in 1..Len(report) :
        /\ report[i].result.kind = "UnexpectedSuccess"
        /\ Contains(<<"libc++.", "libcxx/", "thread">>,
                    name(report[i].result.test))

\* C8: restart_flaky_tests on a Report with no flake-matching failure
\* changes nothing (no Report change, no task added, no cooldown), and the
\* wait_for_results after it consumes no result.
C8_RestartNoFlakyIsNoOp ==
    /\ [][(/\ pc = "restart"
           /\ pc' # pc
           /\ \A i \in 1..Len(report) : NotFlakyFailure(report[i]))
            => /\ report' = report
               /\ rerun_tests' = <<>>
               /\ UNCHANGED <<task_queues, result_queue, num_tasks, cooldowns>>]_vars
    /\ [](/\ pc \in {"requeue", "wait2", "summarize", "returned"}
          /\ cooldowns = 0
          => /\ num_tasks = 0
             /\ get_count.wait2 = 0
             /\ rerun_tests = <<>>
             /\ \A g \in DeviceGroups : task_queues[g] = <<>>)

\* the run is summarized with a permanent failure and no retry taken
C8_Witness ==
    /\ pc = "summarize"
    /\ cooldowns = 0
    /\ get_count.wait2 = 0
    /\ \E i \in 1..Len(report) : report[i].result.kind = "Failure"

\* C9: the run's outcome is success exactly when the final Report holds no
\* Failure and no UnexpectedSuccess; no outcome is recorded before.
C9_VerdictIsReportSuccessful ==
    /\ pc # "returned" => success = None
    /\ pc = "returned" =>
        /\ success \in {"True", "False"}
        /\ success = "True" <=>
             \A i \in 1..Len(report) :
                 report[i].result.kind \notin {"Failure", "UnexpectedSuccess"}

\* a run of a Skipped and an ExpectedFailure ended successfully
C9_Witness ==
    /\ pc = "returned"
    /\ success = "True"
    /\ \E i, j \in 1..Len(report) :
        /\ report[i].result.kind = "Skipped"
        /\ report[j].result.kind = "ExpectedFailure"

Errored == \E d \in Devices : crashed[d] > 0

\* C10: once a worker has raised, its TaskError stays on the result queue
\* until get_result raises it; get_result raising adds no Result and leaves
\* num_tasks alone; after it the Report and the outcome never change, the
\* run never reaches SUMMARIZE, and the driver does get to raise it.
C10_TaskErrorIsFatal ==
    /\ [](Errored =>
            /\ pc \notin {"summarize", "returned"}
            /\ success = None
            /\ \/ pc = "raised"
               \/ \E i \in 1..Len(result_queue) :
                      result_queue[i].kind = "TaskError")
    /\ [][(/\ result_queue # <<>>
           /\ Head(result_queue).kind = "TaskError"
           /\ result_queue' = Tail(result_queue))
            => /\ pc' = "raised"
               /\ report' = report
               /\ num_tasks' = num_tasks]_vars
    /\ [][pc = "raised" =>
            /\ pc' = "raised"
            /\ report' = report
            /\ success' = success]_vars
    /\ (Errored ~> pc = "raised")

\* get_result raised a TaskError after Results had been added to the Report
C10_Witness ==
    /\ pc = "raised"
    /\ Errored
    /\ report # <<>>

\* every device of group g can run the build configuration c, read from the
\* devices' ABIs and versions
Eligible(g, c) ==
    \A d \in DevicesOf(g) :
        /\ BuildConfigurations[c].abi \in Abis(d)
        /\ BuildConfigurations[c].api <= Version(d)

\* a configuration of the found tests matches no attached group
SomeConfigUnmatched ==
    \E c \in DOMAIN test_groups : \A g \in adb_devices : ~Eligible(g, c)

\* a requested device configuration has no attached device
SomeDeviceMissing == \E g \in DeviceGroups : g \notin adb_devices

\* the run failed before anything was enqueued
FailedEarly ==
    /\ pc = "returned"
    /\ success = "False"
    /\ Len(added) = 0
    /\ add_count = 0

UnmatchedConfigs ==
    {c \in DOMAIN test_groups : \A g \in adb_devices : ~Eligible(g, c)}

\* the TestRuns of the test cases found for configuration c
RunsOfConfig(c) == {t \in AllRuns : TestRuns[t].test_case \in test_groups[c]}

\* a push task was added for configuration c and device d
Pushed(c, d) ==
    \E i \in 1..Len(added) :
        /\ added[i].func = "push_tests_to_device"
        /\ added[i].config = c
        /\ added[i].device = d

\* C12: without --require-all-devices a missing requested device and a
\* configuration with no matching group are only warned of: the run never
\* fails at the device check, a run that returned has pushed to every
\* matched device and holds a Result for every TestRun, the test cases of
\* an unmatched configuration have no TestRun and are never executed, and
\* the verdict is FAILED exactly when the Report holds a Failure or an
\* UnexpectedSuccess.
C12_MissingOnlyWarns ==
    ~args.require_all_devices =>
        /\ pc \notin {"find_devices", "verify"} =>
               \A g \in DeviceGroups \ adb_devices :
                   <<"Missing device configurations", RequestedDevices[g]>>
                       \in warnings
        /\ pc \notin {"find_devices", "verify", "match"} =>
               \A c \in UnmatchedConfigs : <<"No device found for", c>> \in warnings
        /\ \A c \in UnmatchedConfigs : \A t \in RunsOfConfig(c) :
               /\ t \notin test_runs
               /\ executed_on[t] = {}
               /\ results_of[t] = <<>>
        /\ pc = "returned" =>
               /\ \A c \in DOMAIN test_groups : \A g \in adb_devices :
                      Eligible(g, c) => \A d \in DevicesOf(g) : Pushed(c, d)
               /\ \A t \in test_runs : Len(ReportResults(t)) = 1
               /\ Len(report) = Cardinality(test_runs)
               /\ success = "True" <=>
                      \A i \in 1..Len(report) :
                          report[i].result.kind \notin
                              {"Failure", "UnexpectedSuccess"}

\* a run with the android-30 group missing returned successfully: the tests
\* of arm64_28 had no TestRun, those of arm64_24 ran
C12_Witness ==
    /\ ~args.require_all_devices
    /\ pc = "returned"
    /\ adb_devices = {"g1"}
    /\ "arm64_28" \in UnmatchedConfigs
    /\ test_groups["arm64_28"] # {}
    /\ test_runs # {}
    /\ success = "True"

\* C13: once the configurations are matched, groups_for_config has one key
\* for every configuration of test_groups and lists a group of the fleet
\* under a configuration exactly when every device of the group can run it,
\* each group at most once; with both groups of the scenario attached,
\* arm64_24 maps to g1 and g2 and arm64_28 to g2 only.
C13_MatchIsEligibility ==
    pc \notin {"find_devices", "verify", "match"} /\ ~FailedEarly =>
        /\ DOMAIN groups_for_config = DOMAIN test_groups
        /\ \A c \in DOMAIN test_groups :
            /\ \A g \in DeviceGroups :
                   (\E i \in 1..Len(groups_for_config[c]) :
                        groups_for_config[c][i] = g)
                   <=> (g \in adb_devices /\ Eligible(g, c))
            /\ \A i, j \in 1..Len(groups_for_config[c]) :
                   groups_for_config[c][i] = groups_for_config[c][j] => i = j
        /\ adb_devices = {"g1", "g2"} =>
            /\ "arm64_24" \in DOMAIN test_groups =>
                   groups_for_config["arm64_24"] = <<"g1", "g2">>
            /\ "arm64_28" \in DOMAIN test_groups =>
                   groups_for_config["arm64_28"] = <<"g2">>

\* the scenario's fleet matched against both of its configurations
C13_Witness ==
    /\ pc = "push"
    /\ adb_devices = {"g1", "g2"}
    /\ {"arm64_24", "arm64_28"} \subseteq DOMAIN groups_for_config
    /\ groups_for_config["arm64_24"] = <<"g1", "g2">>
    /\ groups_for_config["arm64_28"] = <<"g2">>

\* the groups whose task queue holds TestRun t
QueuedIn(t) ==
    {g \in DeviceGroups :
        \E i \in 1..Len(task_queues[g]) : task_queues[g][i] = t}

\* TestRun t was created, submitted, requeued or executed
Scheduled(t) ==
    \/ t \in test_runs
    \/ QueuedIn(t) # {}
    \/ \E d \in Devices : t \in running[d]
    \/ executed_on[t] # {}
    \/ \E i \in 1..Len(rerun_tests) : rerun_tests[i].result.test = t

\* C14: every TestRun the driver creates, submits or requeues binds its
\* test case to a group that is listed under the test case's configuration
\* and whose every device can run that configuration, and it is queued only
\* on that group and executed only by its devices.
C14_Schedulable ==
    \A t \in AllRuns :
        Scheduled(t) =>
            LET c == TestCases[TestRuns[t].test_case].config
                g == TestRuns[t].device_group
            IN  /\ Eligible(g, c)
                /\ \E i \in 1..Len(groups_for_config[c]) :
                       groups_for_config[c][i] = g
                /\ QueuedIn(t) \subseteq {g}
                /\ executed_on[t] \subseteq DevicesOf(g)

\* a flaky failure of a test built for arm64_28 is back on the queue of the
\* android-30 group
C14_Witness ==
    /\ pc = "wait2"
    /\ \E t \in test_runs :
        /\ TestCases[TestRuns[t].test_case].config = "arm64_28"
        /\ Len(results_of[t]) = 1
        /\ QueuedIn(t) = {"g2"}

\* the TestRuns the Report holds a Result of
Reported == {report[i].result.test : i \in 1..Len(report)}

\* the test cases enumerate_tests found
FoundCases == UNION {test_groups[c] : c \in DOMAIN test_groups}

\* C15 as claimed: in a run that reaches SUMMARIZE every test case found has
\* a Result in the Report.
C15_EveryFoundCaseReported ==
    pc = "summarize" =>
        \A tc \in FoundCases : \E t \in Reported : TestRuns[t].test_case = tc

\* C15 as amended: in a run that reaches SUMMARIZE the TestRuns are the full
\* cross product of the test cases found and the attached groups eligible
\* for their configuration, and the Report holds exactly one Result for each
\* of them, so a test case has a Result exactly when its configuration
\* matches some group.
C15_CrossProductReported ==
    pc = "summarize" =>
        /\ test_runs =
               {t \in AllRuns :
                    /\ TestRuns[t].test_case \in FoundCases
                    /\ TestRuns[t].device_group \in adb_devices
                    /\ Eligible(TestRuns[t].device_group,
                                TestCases[TestRuns[t].test_case].config)}
        /\ Reported = test_runs
        /\ Len(report) = Cardinality(test_runs)
        /\ \A tc \in FoundCases :
               (\E t \in Reported : TestRuns[t].test_case = tc)
               <=> TestCases[tc].config \notin UnmatchedConfigs

\* the run is summarized with a Result of one test case from each of the
\* two groups its configuration matches
C15_Witness ==
    /\ pc = "summarize"
    /\ \E t1, t2 \in Reported :
        /\ TestRuns[t1].test_case = TestRuns[t2].test_case
        /\ TestRuns[t1].device_group = "g1"
        /\ TestRuns[t2].device_group = "g2"

\* the Results get_result has returned
ResultsReturned == get_count.wait1 + get_count.wait2

\* C16: num_tasks is the number of add_task calls minus the number of
\* Results get_result has returned, it is never negative, and finished()
\* holds exactly when that difference is zero.
C16_NumTasksIsOutstanding ==
    /\ num_tasks = add_count - ResultsReturned
    /\ num_tasks >= 0
    /\ finished <=> (add_count = ResultsReturned)

\* two tasks were added and returned and a requeued third is outstanding
C16_Witness ==
    /\ add_count = 3
    /\ ResultsReturned = 2
    /\ num_tasks = 1
    /\ ~finished

\* every task but the hung one was executed and its Result reached the
\* driver; only the hung task is outstanding
OthersDelivered ==
    /\ \A g \in DeviceGroups : task_queues[g] = <<>>
    /\ \A d \in Devices : running[d] \subseteq {hung}
    /\ result_queue = <<>>
    /\ num_tasks = 1
    /\ \A t \in test_runs \ {hung} :
           /\ executed_on[t] # {}
           /\ results_of[t] # <<>>
           /\ \E i \in 1..Len(report) : report[i].result.test = t

\* C17: a command that never returns stalls one worker of one device and
\* nothing else: the hung task stays with that worker, and every other task
\* submitted, to any device and group, is still executed and its Result
\* still reaches the driver through the shared result queue (unless the run
\* is aborted by a TaskError).
C17_HangStallsOneWorker ==
    /\ [](hung # None =>
            /\ Cardinality({d \in Devices : hung \in running[d]}) = 1
            /\ num_tasks >= 1
            /\ pc \notin {"summarize", "returned"})
    /\ (hung # None) ~> (OthersDelivered \/ pc = "raised")

\* a command hangs on the lone device of the android-30 group and another
\* task of that group was still executed there and reported
C17_Witness ==
    /\ hung # None
    /\ hung \in running["d3"]
    /\ OthersDelivered
    /\ \E t \in test_runs \ {hung} : executed_on[t] = {"d3"}

\* C18 as claimed: the tasks executed on one device run one after the other
\* in submission order, so a command is started on a device only when no
\* command taken earlier is still running there.
C18_SerialPerDevice ==
    [][\A d \in Devices :
           (\E t \in running'[d] : t \notin running[d]) => running[d] = {}]_vars

\* C18 as amended: the tasks of a group's queue are started in submission
\* order: a task enters its group's queue at the tail only, and the task
\* that leaves a queue is its oldest one, taken by a worker of a device of
\* that group; nothing else reorders a queue.
C18_FifoStartOrder ==
    [][\A g \in DeviceGroups :
           task_queues'[g] # task_queues[g] =>
               \/ /\ Len(task_queues[g]) > 0
                  /\ task_queues'[g] = Tail(task_queues[g])
                  /\ \E d \in DevicesOf(g) :
                         /\ d \in executed_on'[Head(task_queues[g])]
                         /\ \/ Head(task_queues[g]) \in running'[d]
                            \/ Len(result_queue') = Len(result_queue) + 1
               \/ /\ Len(task_queues'[g]) = Len(task_queues[g]) + 1
                  /\ SubSeq(task_queues'[g], 1, Len(task_queues[g]))
                         = task_queues[g]
                  /\ device_group(task_queues'[g][Len(task_queues'[g])]) = g
      ]_vars

\* two tasks of the android-30 group's queue are executing at once on its
\* lone device, the second started before the first has finished
C18_Witness ==
    /\ Cardinality(running["d3"]) = 2
    /\ task_queues["g2"] = <<>>
    /\ pc = "wait1"
    /\ Len(report) = 0
    /\ Len(result_queue) = 0

\* the push tasks added for device d
PushTasksFor(d) ==
    {i \in 1..Len(added) :
        added[i].func = "push_tests_to_device" /\ added[i].device = d}

\* the push tasks added for configuration c and device d
PushTasksOf(c, d) == {i \in PushTasksFor(d) : added[i].config = c}

\* the devices of the attached groups matched to some configuration
MatchedDevices ==
    {d \in Devices :
        /\ GroupOf(d) \in adb_devices
        /\ \E c \in DOMAIN test_groups : Eligible(GroupOf(d), c)}

\* C19 as claimed: when the push loop has ended, exactly one push task was
\* enqueued for every device of a matched group (and none for any other).
C19_OnePushPerDevice ==
    pc = "push_wait" =>
        \A d \in Devices :
            Cardinality(PushTasksFor(d)) = IF d \in MatchedDevices THEN 1 ELSE 0

\* C19 as amended: when the push loop has ended, exactly one push task was
\* enqueued for every pair of a configuration and a device of a group
\* matched to that configuration, and none for any other pair; at most
\* NumWorkers of them are in progress at a time.
C19_OnePushPerConfigAndDevice ==
    /\ pc = "push_wait" =>
        \A c \in Configs, d \in Devices :
            Cardinality(PushTasksOf(c, d)) =
                IF /\ c \in DOMAIN test_groups
                   /\ GroupOf(d) \in adb_devices
                   /\ Eligible(GroupOf(d), c)
                THEN 1 ELSE 0
    /\ Cardinality(workqueue.running) + workqueue.crashed <= NumWorkers

\* with two configurations matched to the android-30 group its device got
\* two push tasks, and pushes to two different devices are in progress
C19_Witness ==
    /\ pc = "push_wait"
    /\ Cardinality(PushTasksFor("d3")) = 2
    /\ \E t1, t2 \in workqueue.running :
        /\ t1.func = "push_tests_to_device"
        /\ t2.func = "push_tests_to_device"
        /\ t1.device # t2.device

\* the tasks that are queued, in progress or not yet received by the driver
\* on the work queue of the clean and push phases
Outstanding ==
    {workqueue.task_queue[i] : i \in 1..Len(workqueue.task_queue)}
        \cup workqueue.running
        \cup {workqueue.result_queue[i].task : i \in 1..Len(workqueue.result_queue)}

OutstandingOf(func) == {task \in Outstanding : task.func = func}

\* a task of function func has been added to the work queue
Added(func) == \E i \in 1..Len(added) : added[i].func = func

\* C20: the phases are separated by full drains: once a push task has been
\* enqueued no clean task is outstanding; once a TestRun has been submitted
\* every clean and push task has completed and the work queue has been
\* terminated and joined; and while a test is queued or executing on a
\* device no clean or push task is queued or in progress.
C20_PhasesDrained ==
    /\ Added("push_tests_to_device") =>
           /\ OutstandingOf("clear_test_directory") = {}
           /\ pc \notin {"find_devices", "verify", "match", "clean",
                         "clean_wait"}
    /\ add_count > 0 =>
           /\ workqueue.num_tasks = 0
           /\ OutstandingOf("clear_test_directory") = {}
           /\ OutstandingOf("push_tests_to_device") = {}
           /\ workqueue.terminated
           /\ Len(plain_todo) = 0
    /\ (\E d \in Devices : running[d] # {}) \/ num_tasks > 0 =>
           /\ workqueue.running = {}
           /\ Len(workqueue.task_queue) = 0
           /\ pc \in {"submit", "wait1", "restart", "requeue", "wait2",
                      "summarize", "returned", "raised"}

\* a test is executing on a device after clean and push tasks were added and
\* completed
C20_Witness ==
    /\ Added("clear_test_directory")
    /\ Added("push_tests_to_device")
    /\ \E d \in Devices : running[d] # {}
    /\ workqueue.terminated

(***************************************************************************)
(* C21: flaky-retry extraction never runs concurrently with result         *)
(* draining.  The step of restart_flaky_tests that calls                   *)
(* report.remove_all_failing_flaky is taken only when the sharding queue   *)
(* is finished: no task is outstanding, no task waits in a task queue, no  *)
(* worker is executing one, no Result is undelivered, and the report has   *)
(* received one Result for every TestRun submitted in the run phase.       *)
(***************************************************************************)
Drained ==
    /\ finished
    /\ result_queue = <<>>
    /\ \A g \in DeviceGroups : task_queues[g] = <<>>
    /\ \A d \in Devices : running[d] = {}

C21_ExtractionAfterDrain ==
    [][(pc = "restart" /\ pc' = "requeue") =>
           /\ Drained
           /\ \A t \in test_runs : Len(results_of[t]) = 1
           /\ Len(report) = Cardinality(test_runs)]_vars

\* the extraction is about to run over a drained report of two TestRuns, one
\* of them a flaky failure
C21_Witness ==
    /\ pc = "restart"
    /\ Cardinality(test_runs) = 2
    /\ Len(report) = 2
    /\ flaky_reports(report) # <<>>
    /\ remaining_reports(report) # <<>>

(***************************************************************************)
(* C22: on every path that leaves the device phases of run_tests after a   *)
(* queue was created (normal completion, the early return under            *)
(* --require-all-devices, a TaskError), terminate() and then join() have   *)
(* been called on the queue, in that order, once each, for the work queue  *)
(* of the clean and push phases and for every member queue of the          *)
(* ShardingWorkQueue (one per device of every group found); after that no  *)
(* worker takes a step.                                                    *)
(***************************************************************************)
Constructed == {calls[i][2] : i \in {j \in 1..Len(calls) : calls[j][1] = "__init__"}}

CallsOf(method, queue) == {i \in 1..Len(calls) : calls[i] = <<method, queue>>}

ShutDown(queue) ==
    /\ Cardinality(CallsOf("__init__", queue)) = 1
    /\ Cardinality(CallsOf("terminate", queue)) = 1
    /\ Cardinality(CallsOf("join", queue)) = 1
    /\ \A i \in CallsOf("__init__", queue), j \in CallsOf("terminate", queue),
          k \in CallsOf("join", queue) : i < j /\ j < k

C22_TerminateThenJoin ==
    /\ "workqueue" \in Constructed
    /\ Constructed \ {"workqueue"} \in {{}, Range(work_queues(fleet))}
    /\ pc \in {"returned", "raised"} =>
           /\ \A queue \in Constructed : ShutDown(queue)
           /\ workqueue.terminated
           /\ ~workers_alive
    /\ pc \in {"submit", "wait1", "restart", "requeue", "wait2", "summarize"} =>
           Constructed \ {"workqueue"} = Range(work_queues(fleet))

\* a TaskError left run_tests while a remote command was still in flight:
\* the clean/push queue and all three member queues were shut down
C22_Witness ==
    /\ pc = "raised"
    /\ Constructed = {"workqueue", "d1", "d2", "d3"}
    /\ \A queue \in Constructed : ShutDown(queue)
    /\ Cardinality({d \in Devices : running[d] # {}}) >= 1
    /\ args.clean_device

(***************************************************************************)
(* C23: a per-test failure is never fatal to the batch.  A command that    *)
(* exits non-zero, or a shell call that raises RuntimeError, yields a      *)
(* Failure or ExpectedFailure Result on the result queue, never a          *)
(* TaskError: a TaskError is queued only by a worker that died.  Unless    *)
(* some worker did die, every submitted TestRun is executed and recorded   *)
(* in the Report, and the run returns.                                     *)
(***************************************************************************)
CommandFailed(t) == \E i \in 1..Len(statuses[t]) : statuses[t][i] # 0

AllRecorded ==
    /\ pc = "returned"
    /\ \A t \in test_runs :
        /\ executed_on[t] # {}
        /\ \E i \in 1..Len(report) : report[i].result.test = t

FailureIsAResult ==
    /\ \A i \in 1..Len(result_queue) :
           result_queue[i].kind = "TaskError" => Errored
    /\ (pc = "raised") => Errored
    /\ \A t \in test_runs : \A i \in 1..Len(results_of[t]) :
           (i <= Len(statuses[t]) /\ statuses[t][i] # 0) =>
               results_of[t][i].kind \in {"Failure", "ExpectedFailure"}
    /\ (pc = "returned" /\ ~Errored) => AllRecorded

C23_TestFailureNotFatal ==
    /\ []FailureIsAResult
    /\ (\E t \in test_runs : CommandFailed(t)) ~> (AllRecorded \/ Errored)

\* the run returned with one TestRun whose command failed, also when it was
\* retried, and another whose command passed, both recorded
C23_Witness ==
    /\ AllRecorded
    /\ ~Errored
    /\ Cardinality(test_runs) = 2
    /\ \E t \in test_runs : CommandFailed(t) /\ Len(results_of[t]) = 2
    /\ \E t \in test_runs : ~CommandFailed(t) /\ statuses[t] # <<>>

(***************************************************************************)
(* C24: the process exit status is 0 if and only if run_tests returned     *)
(* with success recorded, and 1 otherwise; main exits through sys.exit     *)
(* only when an outcome was recorded: on Results whose success is None it  *)
(* raises RuntimeError.                                                    *)
(***************************************************************************)
C24_ExitStatus ==
    /\ exit_status # <<>> =>
           LET exit == exit_status[1]
           IN  /\ pc \in {"returned", "raised"}
               /\ exit.status \in {0, 1}
               /\ exit.status = 0 <=> (pc = "returned" /\ success = "True")
               /\ exit.raises = None <=> success # None
               /\ pc = "returned" => exit = main(success)
    /\ pc = "returned" => success \in {"True", "False"}
    /\ main(None).raises = "RuntimeError"
    /\ \A outcome \in {"True", "False"} :
           /\ main(outcome).raises = None
           /\ main(outcome).status = 0 <=> outcome = "True"

\* main exited with status 1 after a run whose report holds a failure
C24_Witness ==
    /\ exit_status = <<sys_exit(TRUE)>>
    /\ pc = "returned"
    /\ success = "False"
    /\ ~successful(report)

(***************************************************************************)
(* C25: rendering the progress UI never changes Work Queue state.  In      *)
(* every state of the run, and for every console, get_ui_lines leaves      *)
(* num_tasks, every task queue, the result queue and the workers as they   *)
(* were; an iteration of wait_for_results, which ends with ui.draw(),      *)
(* changes the queue by what get_result did and nothing more.              *)
(***************************************************************************)
RenderingIsReadOnly ==
    \A ui \in UiKinds :
        /\ get_ui_lines(shard_queue, ui[1], ui[2]).workqueue = shard_queue
        /\ Len(get_ui_lines(shard_queue, ui[1], ui[2]).lines) =
               (IF ui[1] THEN Len(work_queues(fleet)) ELSE 0) + 1
               + (IF ui[2] THEN Cardinality(DOMAIN task_queues) ELSE 0)

C25_UiLeavesQueueAlone ==
    /\ []RenderingIsReadOnly
    /\ [][get_count' # get_count =>
              /\ num_tasks' = num_tasks - 1
              /\ result_queue' = Tail(result_queue)
              /\ task_queues' = task_queues
              /\ running' = running
              /\ crashed' = crashed]_vars

\* the UI was drawn after the first Result while a task still waited in the
\* queue of g1: the lines show one test remaining and one queued for g1
C25_Witness ==
    /\ pc = "wait1"
    /\ get_count["wait1"] = 1
    /\ Len(task_queues["g1"]) = 1
    /\ LET lines == get_ui_lines(shard_queue, FALSE, TRUE).lines
       IN  /\ lines[1] = <<1, " tests remaining">>
           /\ lines[2][1] = 1
           /\ lines[3][1] = 0

(***************************************************************************)
(* C26: shuffling is not a correctness requirement.  When the outcome of   *)
(* each test's command is a function of the TestRun (test case, device     *)
(* group) alone, then for every submission order and every interleaving    *)
(* of the workers the final Report holds exactly one Result per TestRun,   *)
(* and the verdict is the same.                                            *)
(***************************************************************************)
\* the Result of TestRun t when the first device of its group runs it
ExpectedResult(t) ==
    run(t, GroupDevices(device_group(t))[1],
        shell_nocheck_wrap_errors(outcome_of[t]))

ExpectedVerdict ==
    IF \A t \in test_runs : ~failed(ExpectedResult(t)) THEN "True" ELSE "False"

FinalResults(t) ==
    {report[i].result : i \in {j \in 1..Len(report) : report[j].result.test = t}}

OneEntry(t) ==
    Cardinality({i \in 1..Len(report) : report[i].result.test = t}) = 1

\* the same variant, test, configuration and bug; the same message, but for
\* the device a Failure names in its first line
SameButForDevice(result, expected) ==
    /\ result.kind = expected.kind
    /\ result.test = expected.test
    /\ result.config = expected.config
    /\ result.bug = expected.bug
    /\ IF result.kind = "Failure"
       THEN /\ Len(result.message) = Len(expected.message)
            /\ result.message[1] \in DevicesOf(device_group(result.test))
            /\ Tail(result.message) = Tail(expected.message)
       ELSE result.message = expected.message

\* C26 as stated: the Report holds the very same Result for every TestRun,
\* whatever the order and the interleaving
C26_SameResult ==
    pc = "returned" =>
        /\ \A t \in test_runs : OneEntry(t) /\ FinalResults(t) = {ExpectedResult(t)}
        /\ success = ExpectedVerdict

\* C26 amended: the same Result but for the device that a Failure's message
\* names, which is whichever device of the group took the task; the same
\* verdict
C26_SameResultButForDevice ==
    pc = "returned" =>
        /\ \A t \in test_runs :
            /\ OneEntry(t)
            /\ \A result \in FinalResults(t) :
                   SameButForDevice(result, ExpectedResult(t))
        /\ success = ExpectedVerdict

\* two TestRuns of the two-device group, one failing both times it ran, on
\* the second device the last time, the other passing
C26_Witness ==
    /\ pc = "returned"
    /\ Cardinality(test_runs) = 2
    /\ success = "False"
    /\ \E t \in test_runs :
        /\ device_group(t) = "g1"
        /\ Len(results_of[t]) = 2
        /\ \E result \in FinalResults(t) :
               result.kind = "Failure" /\ result.message[1] = "d2"
    /\ \E t \in test_runs : \E result \in FinalResults(t) : result.kind = "Success"

(***************************************************************************)
(* C27: discovery only yields configurations whose ABI is requested.       *)
(* Every key of the mapping returned by enumerate_tests has an ABI in the  *)
(* ABI list of the active config and is one of the directories of the      *)
(* dist tree, and every TestCase listed under a key has that key as its    *)
(* build configuration.                                                    *)
(***************************************************************************)
C27_KeysHaveRequestedAbi ==
    ret # <<>> =>
        LET tests == ret[1]
            config_abis == arg[3]
        IN  /\ \A build_cfg \in DOMAIN tests :
                /\ build_cfg.abi \in config_abis
                /\ to_string(build_cfg) \in arg[1].dirs
                /\ \A test_case \in tests[build_cfg] : test_case.config = build_cfg
            /\ \A d \in arg[1].dirs :
                   from_string(d).abi \in config_abis => from_string(d) \in DOMAIN tests

\* the dist directory holds an x86 configuration that was not requested
\* next to two requested ones; both of those are keys, with tests
C27_Witness ==
    /\ ret # <<>>
    /\ <<"x86", "24">> \in arg[1].dirs
    /\ <<"x86">> \notin arg[3]
    /\ Cardinality(DOMAIN ret[1]) = 2
    /\ \A build_cfg \in DOMAIN ret[1] : Cardinality(ret[1][build_cfg]) = 3

(***************************************************************************)
(* The graph that find_cycle was applied to, and what it returned.         *)
(***************************************************************************)
TheGraph == NewGraph(arg.nodes, arg.lists)

IsEdge(graph, a, b) == b \in Range(graph.outs[a])

ReturnedNone == ret # <<>> /\ ret[1] = <<>>

ReturnedList == ret # <<>> /\ ret[1] # <<>>

(***************************************************************************)
(* C28: whenever find_cycle returns a list, the list is a real cycle of    *)
(* the graph: at least two entries, the first and the last the same node,  *)
(* every consecutive pair an edge, no node repeated but the first/last.    *)
(***************************************************************************)
C28_ReturnedListIsCycle ==
    ReturnedList =>
        LET cycle == ret[1][1]
        IN  /\ Len(cycle) >= 2
            /\ cycle[1] = cycle[Len(cycle)]
            /\ \A i \in 1..(Len(cycle) - 1) :
                   IsEdge(TheGraph, cycle[i], cycle[i + 1])
            /\ \A i, j \in 1..(Len(cycle) - 1) : cycle[i] = cycle[j] => i = j

\* the search went from a to b to c and met b again: the list returned is
\* the part of the path from b on
C28_Witness ==
    /\ ReturnedList
    /\ ret[1][1] = <<"b", "c", "b">>
    /\ IsEdge(TheGraph, "a", "b")
    /\ ~IsEdge(TheGraph, "b", "a")

(***************************************************************************)
(* C29: find_cycle returns None if and only if the graph is acyclic; a     *)
(* graph with a cycle among its nodes always gets a list, also when every  *)
(* node of the cyclic part has an incoming edge and earlier searches have  *)
(* already marked some of its nodes visited.                               *)
(***************************************************************************)
\* a closed walk of at most |Names| edges
HasCycle(graph) ==
    \E walk \in UNION {[1..k -> Names] : k \in 2..(Cardinality(Names) + 1)} :
        /\ walk[1] = walk[Len(walk)]
        /\ \A i \in 1..(Len(walk) - 1) : IsEdge(graph, walk[i], walk[i + 1])

C29_NoneIffAcyclic ==
    ret # <<>> => (ReturnedNone <=> ~HasCycle(TheGraph))

\* no node is a source; the searches from a and b end without a cycle and
\* leave a and b visited; the search from c skips both and finds c -> c
C29_Witness ==
    /\ ReturnedList
    /\ ret[1][1] = <<"c", "c">>
    /\ \A n \in Names : \E m \in Names : IsEdge(TheGraph, m, n)
    /\ IsEdge(TheGraph, "c", "a")
    /\ IsEdge(TheGraph, "a", "b")
    /\ TheGraph.outs["c"][1] = "a"

(***************************************************************************)
(* C30: find_cycle is deterministic in the graph alone.  Graphs made with  *)
(* the same nodes and edges, the node list and the out-list of each Node   *)
(* given in any order, return the same result as the one made with every   *)
(* list given in the order of the names: the same cycle, node for node,    *)
(* or None.                                                                *)
(***************************************************************************)
InNameOrder(list) == SelectSeq(NameOrder, LAMBDA n : n \in Range(list))

CanonicalGraph ==
    NewGraph(InNameOrder(arg.nodes),
             [n \in Names |-> [given |-> InNameOrder(arg.lists[n].given),
                               appended |-> arg.lists[n].appended]])

Constructing == ret # <<>> /\ ret[1].op = "construct"

C31_ConfigurationUnchanged ==
    Constructing => ret[1].made.heap[1] = arg.config

\* a LibcxxTest was made from a configuration without an API level
C31_Witness ==
    /\ Constructing
    /\ arg.cls = "LibcxxTest"
    /\ arg.config.api = <<>>
    /\ ret[1].made.raises = None

(***************************************************************************)
(* C38.  _get_or_infer_app_platform returns the platform the user gave     *)
(* when there is one; otherwise the APP_PLATFORM level of                  *)
(* jni/Application.mk when that is present and at least the minimum API    *)
(* level of the ABI; otherwise that minimum.  Without a user platform the  *)
(* result is never below the minimum.                                      *)
(***************************************************************************)
Inferring == ret # <<>> /\ ret[1].op = "infer"

\* the APP_PLATFORM assignments of the file, in order and without blanks
AppPlatformLines ==
    IF ~arg.test_dir.exists THEN <<>>
    ELSE SelectSeq([i \in 1..Len(arg.test_dir.lines) |->
                       SelectSeq(arg.test_dir.lines[i],
                                 LAMBDA t : t \notin Whitespace)],
                   LAMBDA line : line # <<>> /\ line[1] = "APP_PLATFORM")

\* the levels that the first APP_PLATFORM line gives: android-<number>
MkLevels ==
    IF AppPlatformLines = <<>> THEN {}
    ELSE {Numerals[n] : n \in {m \in DOMAIN Numerals :
             AppPlatformLines[1] = <<"APP_PLATFORM", ":=", "android", "-", m>>}}

\* APP_PLATFORM is there, but not as android-<number>
MkMalformed == AppPlatformLines # <<>> /\ MkLevels = {}

InferredPlatform ==
    IF arg.config.api # <<>> THEN arg.config.api
    ELSE IF \E n \in MkLevels : n >= min_api_for_abi(arg.config.abi)
    THEN <<CHOOSE n \in MkLevels : TRUE>>
    ELSE <<min_api_for_abi(arg.config.abi)>>

XunitParsed == ret # <<>>

\* the <testcase> elements of the document, in document order
TestCaseElements ==
    LET all == arg.xunit_file[1] \o arg.xunit_file[2]
    IN  SelectSeq(all, LAMBDA e : e.tag = "testcase")

FailureTexts(e) ==
    LET nodes == SelectSeq(e.children, LAMBDA c : c.tag = "failure")
    IN  [i \in 1..Len(nodes) |-> nodes[i].text]

\* the class name is that of a libc++ test
InLibcxx(e) == Len(e.classname) >= 2 /\ e.classname[1] = "libc++"
                  /\ e.classname[2] = "."

\* the path that the element names below the libc++ test directory, with
\* its periods mangled to underscores
MangledPath(e) ==
    IF e.classname = <<"libc++", ".", "libc++">> THEN e.name
    ELSE SubSeq(e.classname, 3, Len(e.classname)) \o <<"/">> \o e.name

\* the original tests that an element can stand for
OriginalsOf(e) ==
    IF ~InLibcxx(e) THEN {}
    ELSE {i \in 1..Len(ALL_TESTS) :
            /\ Len(ALL_TESTS[i]) = Len(MangledPath(e))
            /\ \A k \in 1..Len(ALL_TESTS[i]) :
                  \/ ALL_TESTS[i][k] = MangledPath(e)[k]
                  \/ MangledPath(e)[k] = "_" /\ ALL_TESTS[i][k] \in Characters}

Unreportable(e) ==
    Len(FailureTexts(e)) > 1 \/ Cardinality(OriginalsOf(e)) # 1

\* the report of position i is the one that element i calls for
ReportMatches(i) ==
    LET e == TestCaseElements[i]
        r == ret[1].value[1][i]
    IN  /\ r.name = <<"libc++", ".">> \o ALL_TESTS[CHOOSE t \in OriginalsOf(e) : TRUE]
        /\ r.config = arg.config
        /\ r.cls = "XunitSuccess" <=> Len(FailureTexts(e)) = 0
        /\ r.cls = "XunitFailure" <=> Len(FailureTexts(e)) = 1
        /\ r.cls = "XunitFailure" => r.text = FailureTexts(e)[1]

OneReportPerTestCase ==
    /\ ret[1].raises = None
    /\ ret[1].value # <<>>
    /\ Len(ret[1].value[1]) = Len(TestCaseElements)
    /\ \A i \in 1..Len(TestCaseElements) : ReportMatches(i)

\* C32 as stated: RuntimeError for every document with an element that
\* cannot be reported
C32_XunitReports ==
    XunitParsed =>
        IF \E i \in 1..Len(TestCaseElements) : Unreportable(TestCaseElements[i])
        THEN ret[1].raises = "RuntimeError" /\ ret[1].value = <<>>
        ELSE OneReportPerTestCase

\* C32, amended: the first element in document order that cannot be
\* reported decides the exception, which is ValueError when its class name
\* does not begin with "libc++." and RuntimeError otherwise; in both cases
\* no list is returned.
C32_XunitReportsOrError ==
    XunitParsed =>
        LET bad == {i \in 1..Len(TestCaseElements) :
                       Unreportable(TestCaseElements[i])}
            first == CHOOSE i \in bad : \A j \in bad : i <= j
        IN  IF bad # {}
            THEN /\ ret[1].value = <<>>
                 /\ ret[1].raises = IF InLibcxx(TestCaseElements[first])
                                    THEN "RuntimeError" ELSE "ValueError"
            ELSE OneReportPerTestCase

\* a document with a passing and a failing test case was turned into two
\* reports
C32_Witness ==
    /\ XunitParsed
    /\ ret[1].raises = None
    /\ Len(ret[1].value[1]) = 2
    /\ ret[1].value[1][1].cls = "XunitFailure"
    /\ ret[1].value[1][2].cls = "XunitSuccess"
    /\ ret[1].value[1][1].text = "bang"

(***************************************************************************)
(* C33.  restart_flaky_tests requeues a flaky TestRun to the task queue of *)
(* the device group it is bound to, as the same TestRun that was submitted *)
(* before; the retry is then taken only by a worker of a device of that    *)
(* group.                                                                  *)
(***************************************************************************)
\* the driver requeues the TestRun at the head of rerun_tests
Requeues(t) ==
    /\ pc = "requeue"
    /\ rerun_tests # <<>>
    /\ rerun_tests' = Tail(rerun_tests)
    /\ t = Head(rerun_tests).result.test

\* a worker of device d takes TestRun t after the requeueing
TakesRetry(t, d) ==
    /\ pc = "wait2"
    /\ task_queues[GroupOf(d)] # <<>>
    /\ task_queues'[GroupOf(d)] = Tail(task_queues[GroupOf(d)])
    /\ t = Head(task_queues[GroupOf(d)])
    /\ d \in executed_on'[t]

C33_RequeuedToOwnGroup ==
    [][/\ \A t \in AllRuns : Requeues(t) =>
             /\ t \in test_runs
             /\ results_of[t] # <<>>
             /\ task_queues' = [task_queues EXCEPT
                                   ![device_group(t)] = Append(@, t)]
       /\ \A t \in AllRuns : \A d \in Devices : TakesRetry(t, d) =>
             d \in DevicesOf(device_group(t))]_vars

\* flaky TestRuns of both groups were requeued and their retries ran, the
\* one of the two-device group on its second device
C33_Witness ==
    /\ pc = "wait2"
    /\ \E t1, t2 \in test_runs :
        /\ device_group(t1) = "g1" /\ device_group(t2) = "g2"
        /\ cmds[t1] = 2 /\ cmds[t2] = 2
        /\ executed_on[t1] = {"d1", "d2"}
        /\ executed_on[t2] = {"d3"}

(***************************************************************************)
(* C34.  When every submitted task completes and no worker raises,         *)
(* wait_for_results terminates: it has then taken one result per task      *)
(* added and finished() is true; and while it waits in get_result, a task  *)
(* is outstanding (queued, executing, or with its result in the queue).    *)
(***************************************************************************)
\* tasks that are queued, executing, or have a result waiting
OutstandingTests ==
    LET queued == Flatten([i \in 1..Len(GroupOrder) |-> task_queues[GroupOrder[i]]])
        executing == {<<d, t>> \in Devices \X AllRuns : t \in running[d]}
    IN  Len(queued) + Cardinality(executing) + Len(result_queue)

C34_WaitTerminates ==
    /\ (pc = "wait1") ~> (pc = "restart" /\ finished)
    /\ (pc = "wait2") ~> (pc = "summarize" /\ finished)
    /\ [](pc = "restart" => get_count.wait1 = add_count)
    /\ [](pc = "summarize" => get_count.wait1 + get_count.wait2 = add_count)
    /\ [](pc \in {"wait1", "wait2"} /\ ~finished => OutstandingTests > 0)

\* the second wait_for_results returned after taking the result of a retry
C34_Witness ==
    /\ pc = "summarize"
    /\ finished
    /\ get_count.wait1 = 2
    /\ get_count.wait2 >= 1

(***************************************************************************)
(* C36.  When discovery finds no test case in any configuration, the run   *)
(* ends with no device work (no device discovery, push or test task): it   *)
(* is DONE if the tests were built in this invocation (--rebuild) and      *)
(* FAILED otherwise.                                                       *)
(***************************************************************************)
Timed(label) == \E i \in 1..Len(results.times) : results.times[i] = label

\* discovery has run and found nothing
ZeroFound ==
    /\ Timed("Test discovery")
    /\ \A c \in DOMAIN test_groups : test_groups[c] = {}

\* no device was looked for, no work queue was made, no task was added
NoDeviceWork ==
    /\ calls = <<>>
    /\ fleet = find_devices({})
    /\ groups_for_config = <<>>
    /\ added = <<>>
    /\ add_count = 0
    /\ test_runs = {}
    /\ \A t \in AllRuns : executed_on[t] = {} /\ cmds[t] = 0

C36_ZeroTestsEndsRun ==
    ZeroFound =>
        /\ pc = "returned"
        /\ success = IF args.rebuild THEN "True" ELSE "False"
        /\ NoDeviceWork
        /\ exit_status # <<>> =>
              exit_status[1].status = IF args.rebuild THEN 0 ELSE 1

\* a rebuild whose tests built, but none of which is a test to run on a
\* device, ended DONE
C36_Witness ==
    /\ ZeroFound
    /\ args.rebuild
    /\ Timed("Build")
    /\ success = "True"
    /\ exit_status = <<sys_exit(FALSE)>>

(***************************************************************************)
(* C37.  In a build mode (--rebuild or --build-only) a build that finds no *)
(* tests, or whose report is unsuccessful, ends the run FAILED before test *)
(* discovery and before any device work; with --build-only a successful    *)
(* build ends the run DONE, also with no discovery and no device work.     *)
(***************************************************************************)
\* the build has been run and `report` still is its report
BuildReported ==
    /\ args.rebuild \/ args.build_only
    /\ Timed("Build")
    /\ calls = <<>>

\* run_tests returned before test discovery and before any device work
EndedBeforeDiscovery ==
    /\ pc = "returned"
    /\ ~Timed("Test discovery")
    /\ test_groups = <<>>
    /\ NoDeviceWork

C37_BuildModes ==
    BuildReported =>
        IF num_tests(report) = 0 \/ ~successful(report)
        THEN /\ success = "False"
             /\ EndedBeforeDiscovery
             /\ exit_status \in {<<>>, <<sys_exit(TRUE)>>}
        ELSE args.build_only =>
                \/ pc = "build_only" /\ success = None
                \/ /\ success = "True"
                   /\ EndedBeforeDiscovery
                   /\ exit_status \in {<<>>, <<sys_exit(FALSE)>>}

\* a --build-only run whose build succeeded has exited with status 0
C37_Witness ==
    /\ BuildReported
    /\ args.build_only
    /\ successful(report) /\ num_tests(report) = 1
    /\ EndedBeforeDiscovery
    /\ success = "True"
    /\ exit_status = <<sys_exit(FALSE)>>

(***************************************************************************)
(* C35.  The outcome is assigned once: Results.passed and Results.failed   *)
(* raise ValueError when an outcome is already recorded, and every normal  *)
(* return of run_tests returns a Results whose success is set and was set  *)
(* by exactly one passed/failed call.                                      *)
(***************************************************************************)
\* the Results objects: with no outcome, passed, failed with or without a
\* message
ResultsObjects ==
    [success : {None, "True", "False"},
     failure_message : {None, "Found no tests for filter"},
     times : {<<>>, <<"Build">>}]

\* passed and failed on any Results object: an outcome is recorded only
\* where there was none, and otherwise ValueError leaves the object as it was
AssignedOnlyOnce ==
    \A self \in ResultsObjects :
        \A call \in {Results_passed(self), Results_failed(self, None),
                     Results_failed(self, "Found no tests in dist")} :
            IF self.success = None
            THEN call.raises = None /\ call.self.success \in {"True", "False"}
            ELSE call.raises = "ValueError" /\ call.self = self

\* a step of run_tests that calls results.passed() or results.failed()
OutcomeCall == success' # success \/ results'.failure_message # results.failure_message

C35_OutcomeAssignedOnce ==
    /\ [](AssignedOnlyOnce)
    /\ [](pc = "returned" => success \in {"True", "False"})
    /\ [](exit_status # <<>> /\ pc = "returned" =>
             exit_status[1] = sys_exit(success = "False"))
    /\ [][/\ OutcomeCall => success = None /\ pc # "returned" /\ pc' = "returned"
          /\ pc # "returned" /\ pc' = "returned" => success = None /\ success' # None
          /\ pc = "returned" => success' = success]_vars

\* run_tests returned from the strict check of the devices, its first and
\* only failed() call
C35_Witness ==
    /\ pc = "returned"
    /\ success = "False"
    /\ results.failure_message = "Some requested devices were not available."
    /\ Timed("Test discovery")
    /\ Timed("Device discovery")

(***************************************************************************)
(* C39: find_cycle returns on every graph, cyclic ones and self-loops      *)
(* included, having expanded each node at most once: no node was handed    *)
(* to visited.add twice, so the out-edges of at most one node per node of  *)
(* the graph were followed.  And every call of find_cycle_from_node that   *)
(* returns None leaves the shared path list as it was when the call        *)
(* began; the calls are those on any node with `visited` as it stood at    *)
(* some moment of the search and any path without a repeated node.         *)
(***************************************************************************)
Searched == ret # <<>>

Expanded == ret[2]

ExpandedAtMostOnce ==
    \A i, j \in 1..Len(Expanded) : Expanded[i] = Expanded[j] => i = j

PathRestoredOnNone ==
    \A node \in Names :
    \A k \in 0..Len(Expanded) :
    \A path \in NameLists :
        LET found == find_cycle_from_node(TheGraph, node,
                                          SubSeq(Expanded, 1, k), path)
        IN  found.cycle = <<>> => found.path = path

C39_FindCycleTerminates ==
    Searched =>
        /\ ExpandedAtMostOnce
        /\ Len(Expanded) <= Cardinality(Names)
        /\ PathRestoredOnNone

\* a is reached from b and from c and is expanded once; the search from a
\* and the one from b return None, the one from c runs into c's self-loop
C39_Witness ==
    /\ Searched
    /\ IsEdge(TheGraph, "b", "a")
    /\ IsEdge(TheGraph, "c", "a")
    /\ IsEdge(TheGraph, "c", "c")
    /\ TheGraph.outs["c"] = <<"a", "c">>
    /\ Expanded = <<"a", "b", "c">>
    /\ ret[1] = <<(<<"c", "c">>)>>
    /\ find_cycle_from_node(TheGraph, "b", <<"a">>, <<>>) =
           [cycle |-> <<>>, visited |-> <<"a", "b">>, path |-> <<>>]

====
